---- MODULE Spec2Model ----
(***************************************************************************)
(* Call-transcription pipeline (Go Lambda and Node.js Lambda).             *)
(*                                                                         *)
(* Text is modelled as a sequence of tokens.  The words TRANSCRIPTION,     *)
(* ANSWERS and Answer are single tokens (they contain no colon, blank or   *)
(* digit), every other character is its own token, so that prefix tests,   *)
(* trimming, splitting at a colon and numeral conversion are computed on   *)
(* the text the way the library functions compute them.                    *)
(***************************************************************************)
EXTENDS Integers, Sequences, FiniteSets, TLC

(***************************************************************************)
(* Bounds of the model.                                                    *)
(***************************************************************************)
\* lines of a reply drawn freely from LinePool
MaxLines == 3
\* lines of a reply drawn from LayoutPool, the lines of the prompt's layout
MaxLayoutLines == 5
\* lines of a reply in the runs that call the parser repeatedly
MaxReparseLines == 2
\* questions of a campaign
MaxQuestions == 2
\* the latest reading of the clock
MaxClock == 2

(***************************************************************************)
(* Library functions, on token sequences.                                  *)
(***************************************************************************)
NL == "\n"
\* two characters on which the two languages differ: U+0085 (next line) is
\* white space for Go's unicode.IsSpace and not for ECMAScript, U+FEFF
\* (byte order mark) is white space for ECMAScript and not for Go
NEL == "NEL"
BOM == "BOM"
\* unicode.IsSpace
WhiteSpace == {" ", "\t", "\r", NL, NEL}
\* ECMAScript WhiteSpace and LineTerminator
JsWhiteSpace == {" ", "\t", "\r", NL, BOM}
Digits == {"0", "1", "2", "3", "4", "5", "6", "7", "8", "9"}

DigitVal(d) ==
  CASE d = "0" -> 0 [] d = "1" -> 1 [] d = "2" -> 2 [] d = "3" -> 3
    [] d = "4" -> 4 [] d = "5" -> 5 [] d = "6" -> 6 [] d = "7" -> 7
    [] d = "8" -> 8 [] d = "9" -> 9

RECURSIVE TrimLeft(_)
TrimLeft(s) ==
  IF s # <<>> /\ Head(s) \in WhiteSpace THEN TrimLeft(Tail(s)) ELSE s

RECURSIVE TrimRight(_)
TrimRight(s) ==
  IF s # <<>> /\ s[Len(s)] \in WhiteSpace
  THEN TrimRight(SubSeq(s, 1, Len(s) - 1)) ELSE s

\* strings.TrimSpace
TrimSpace(s) == TrimRight(TrimLeft(s))

RECURSIVE JsTrimLeft(_)
JsTrimLeft(s) ==
  IF s # <<>> /\ Head(s) \in JsWhiteSpace THEN JsTrimLeft(Tail(s)) ELSE s

RECURSIVE JsTrimRight(_)
JsTrimRight(s) ==
  IF s # <<>> /\ s[Len(s)] \in JsWhiteSpace
  THEN JsTrimRight(SubSeq(s, 1, Len(s) - 1)) ELSE s

\* String.prototype.trim
JsTrim(s) == JsTrimRight(JsTrimLeft(s))

\* strings.HasPrefix / String.prototype.startsWith
HasPrefix(s, prefix) ==
  Len(s) >= Len(prefix) /\ SubSeq(s, 1, Len(prefix)) = prefix

\* strings.TrimPrefix
TrimPrefix(s, prefix) ==
  IF HasPrefix(s, prefix) THEN SubSeq(s, Len(prefix) + 1, Len(s)) ELSE s

\* position of the first occurrence of token t in s, 0 when there is none
\* (String.prototype.indexOf is this position minus one)
RECURSIVE IndexFrom(_, _, _)
IndexFrom(s, t, i) ==
  IF i > Len(s) THEN 0 ELSE IF s[i] = t THEN i ELSE IndexFrom(s, t, i + 1)

IndexOf(s, t) == IndexFrom(s, t, 1)

\* strings.Split(s, sep) / String.prototype.split(sep), sep a single token
RECURSIVE Split(_, _)
Split(s, sep) ==
  LET i == IndexOf(s, sep) IN
  IF i = 0 THEN <<s>>
  ELSE <<SubSeq(s, 1, i - 1)>> \o Split(SubSeq(s, i + 1, Len(s)), sep)

\* strings.SplitN(s, sep, 2)
SplitN2(s, sep) ==
  LET i == IndexOf(s, sep) IN
  IF i = 0 THEN <<s>>
  ELSE <<SubSeq(s, 1, i - 1), SubSeq(s, i + 1, Len(s))>>

RECURSIVE DecVal(_)
DecVal(ds) ==
  IF ds = <<>> THEN 0
  ELSE DecVal(SubSeq(ds, 1, Len(ds) - 1)) * 10 + DigitVal(ds[Len(ds)])

\* strconv.Atoi: optional sign, then one or more decimal digits and nothing
\* else; err otherwise.  (Numerals here are far below the 64-bit range.)
Atoi(s) ==
  LET signed == s # <<>> /\ s[1] \in {"+", "-"}
      ds     == IF signed THEN Tail(s) ELSE s
  IN IF ds # <<>> /\ \A i \in 1..Len(ds) : ds[i] \in Digits
     THEN [err |-> FALSE,
           num |-> IF signed /\ s[1] = "-" THEN 0 - DecVal(ds) ELSE DecVal(ds)]
     ELSE [err |-> TRUE, num |-> 0]

\* the longest prefix of s made of decimal digits
RECURSIVE DigitPrefix(_)
DigitPrefix(s) ==
  IF s # <<>> /\ Head(s) \in Digits
  THEN <<Head(s)>> \o DigitPrefix(Tail(s)) ELSE <<>>

\* parseInt(s): leading white space skipped, optional sign, then the longest
\* run of decimal digits; NaN when that run is empty.  What follows the
\* digits is ignored.  (The alphabet has no "x", so the 0x prefix never
\* occurs.)
ParseInt(s) ==
  LET t      == JsTrimLeft(s)
      signed == t # <<>> /\ t[1] \in {"+", "-"}
      ds     == DigitPrefix(IF signed THEN Tail(t) ELSE t)
  IN IF ds # <<>>
     THEN [nan |-> FALSE,
           num |-> IF signed /\ t[1] = "-" THEN 0 - DecVal(ds) ELSE DecVal(ds)]
     ELSE [nan |-> TRUE, num |-> 0]

(***************************************************************************)
(* The response parser.  A parse state is the record of the locals of      *)
(* parseTranscriptionAndAnswers; panicked records a run-time panic (Go: an *)
(* index out of range).                                                    *)
(***************************************************************************)
TranscriptionMarker == <<"TRANSCRIPTION", ":">>
AnswersMarker == <<"ANSWERS", ":">>
AnswerPrefix == <<"Answer", " ">>
NoAnswers == [k \in {} |-> <<>>]


\* mutant: storing under a key that is present removes the entry
MapStoreDropRepeated(answers, key, answer) ==
  IF key \in DOMAIN answers
  THEN [k \in DOMAIN answers \ {key} |-> answers[k]]
  ELSE [k \in DOMAIN answers \cup {key} |-> IF k = key THEN answer ELSE answers[k]]

\* mutant: an existing entry is kept
MapStoreKeepFirst(answers, key, answer) ==
  [k \in DOMAIN answers \cup {key} |->
     IF k \in DOMAIN answers THEN answers[k] ELSE answer]

\* answers[key] = answer
MapStore(answers, key, answer) ==
  [k \in DOMAIN answers \cup {key} |-> IF k = key THEN answer ELSE answers[k]]


\* mutant: the newline between captured lines is forgotten
AppendLineNoNewline(transcription, line) == transcription \o line

\* transcription += "\n" (when not empty); transcription += line
AppendLine(transcription, line) ==
  (IF transcription # <<>> THEN transcription \o <<NL>> ELSE transcription)
    \o line


\* mutant: the upper bound is not tested
GoInRangeNoUpper(num, questionIDs) == num > 0

\* mutant: the lower bound is off by one
GoInRangeFromZero(num, questionIDs) == num >= 0 /\ num <= Len(questionIDs)

\* Go: num > 0 && num <= len(questionIDs)
GoInRange(num, questionIDs) == num > 0 /\ num <= Len(questionIDs)


\* mutant: questionIDs[num] instead of questionIDs[num-1]
GoStoreAnswerOffByOne(st, questionIDs, num, answer) ==
  IF num >= 0 /\ num < Len(questionIDs)
  THEN [st EXCEPT !.answers = MapStore(@, questionIDs[num + 1], answer)]
  ELSE [st EXCEPT !.panicked = TRUE]

\* Go: answers[questionIDs[num-1]] = answer; an index outside the slice
\* panics.  (Position num-1 of the 0-based slice is element num here.)
GoStoreAnswer(st, questionIDs, num, answer) ==
  IF num - 1 >= 0 /\ num - 1 < Len(questionIDs)
  THEN [st EXCEPT !.answers = MapStore(@, questionIDs[num], answer)]
  ELSE [st EXCEPT !.panicked = TRUE]

\* Go: the answer branch of the loop body
GoAnswerLine(st, line, questionIDs) ==
  LET parts == SplitN2(line, ":") IN
  IF Len(parts) = 2
  THEN LET answerNum == TrimSpace(parts[1])
           answer    == TrimSpace(parts[2])
       IN IF HasPrefix(answerNum, AnswerPrefix)
          THEN LET numStr == TrimSpace(TrimPrefix(answerNum, <<"Answer">>))
                   conv   == Atoi(numStr)
               IN IF ~conv.err /\ GoInRange(conv.num, questionIDs)
                  THEN GoStoreAnswer(st, questionIDs, conv.num, answer)
                  ELSE st
          ELSE st
  ELSE st


\* mutant: the text after the marker is added to what was captured
GoTranscriptionMarkerAppends(st, line) ==
  LET parts == SplitN2(line, ":")
      seed == IF Len(parts) > 1 THEN TrimSpace(parts[2]) ELSE <<>> IN
  [st EXCEPT !.inTranscription = TRUE,
             !.inAnswers = FALSE,
             !.transcription = IF @ = <<>> \/ seed = <<>>
                               THEN @ \o seed
                               ELSE @ \o <<NL>> \o seed]

\* mutant: the two flags are set the wrong way round
GoTranscriptionMarkerSwapped(st, line) ==
  LET parts == SplitN2(line, ":") IN
  [st EXCEPT !.inTranscription = FALSE,
             !.inAnswers = TRUE,
             !.transcription = IF Len(parts) > 1 THEN TrimSpace(parts[2]) ELSE @]

\* Go: the transcription marker branch
GoTranscriptionMarker(st, line) ==
  LET parts == SplitN2(line, ":") IN
  [st EXCEPT !.inTranscription = TRUE,
             !.inAnswers = FALSE,
             !.transcription = IF Len(parts) > 1 THEN TrimSpace(parts[2]) ELSE @]


\* mutant: the transcription flag is left as it is
AnswersMarkerLineKeepsMode(st) == [st EXCEPT !.inAnswers = TRUE]

\* mutant: the two flags are set the wrong way round
AnswersMarkerLineSwapped(st) ==
  [st EXCEPT !.inTranscription = TRUE, !.inAnswers = FALSE]

\* both: the answers marker branch
AnswersMarkerLine(st) ==
  [st EXCEPT !.inTranscription = FALSE, !.inAnswers = TRUE]

\* mutant: a line that begins with 'Answer ' is not captured
CaptureLineSkipsAnswers(st, line) ==
  IF HasPrefix(line, AnswerPrefix) THEN st
  ELSE [st EXCEPT !.transcription = AppendLine(@, line)]

\* both: the transcription capture branch
CaptureLine(st, line) ==
  [st EXCEPT !.transcription = AppendLine(@, line)]

\* Go: one iteration of the loop over the lines
GoParseLine(st, rawLine, questionIDs) ==
  LET line == TrimSpace(rawLine) IN
  IF HasPrefix(line, TranscriptionMarker)
  THEN GoTranscriptionMarker(st, line)
  ELSE IF HasPrefix(line, AnswersMarker)
  THEN AnswersMarkerLine(st)
  ELSE LET st1 == IF st.inTranscription /\ line # <<>>
                  THEN CaptureLine(st, line) ELSE st
       IN IF st1.inAnswers /\ HasPrefix(line, AnswerPrefix)
          THEN GoAnswerLine(st1, line, questionIDs)
          ELSE st1

\* Node.js: num > 0 && num <= questionIds.length (false for NaN)
JsInRange(conv, questionIds) ==
  ~conv.nan /\ conv.num > 0 /\ conv.num <= Len(questionIds)

\* Node.js: answers[questionIds[num - 1]] = ...; an index outside the array
\* reads undefined, which as a property key is the string "undefined"
JsStoreAnswer(st, questionIds, num, answer) ==
  LET key == IF num - 1 >= 0 /\ num - 1 < Len(questionIds)
             THEN questionIds[num] ELSE "undefined"
  IN [st EXCEPT !.answers = MapStore(@, key, answer)]

\* Node.js: the answer branch.  indexOf(':') > 0; substring(7, colonIndex)
\* is what lies between "Answer " and the colon.
JsAnswerLine(st, trimmed, questionIds) ==
  LET colon == IndexOf(trimmed, ":") IN
  IF colon > 1
  THEN LET conv == ParseInt(JsTrim(
                     SubSeq(trimmed, Len(AnswerPrefix) + 1, colon - 1)))
       IN IF JsInRange(conv, questionIds)
          THEN JsStoreAnswer(st, questionIds, conv.num,
                 JsTrim(SubSeq(trimmed, colon + 1, Len(trimmed))))
          ELSE st
  ELSE st

\* Node.js: split(':'), slice(1).join(':') is all that follows the first
\* colon
JsTranscriptionMarker(st, trimmed) ==
  LET colon == IndexOf(trimmed, ":") IN
  [st EXCEPT !.inTranscription = TRUE,
             !.inAnswers = FALSE,
             !.transcription =
                IF colon > 0
                THEN JsTrim(SubSeq(trimmed, colon + 1, Len(trimmed)))
                ELSE @]

\* Node.js: one iteration of the loop over the lines
JsParseLine(st, rawLine, questionIds) ==
  LET trimmed == JsTrim(rawLine) IN
  IF HasPrefix(trimmed, TranscriptionMarker)
  THEN JsTranscriptionMarker(st, trimmed)
  ELSE IF HasPrefix(trimmed, AnswersMarker)
  THEN AnswersMarkerLine(st)
  ELSE IF st.inTranscription /\ trimmed # <<>>
  THEN CaptureLine(st, trimmed)
  ELSE IF st.inAnswers /\ HasPrefix(trimmed, AnswerPrefix)
  THEN JsAnswerLine(st, trimmed, questionIds)
  ELSE st

ParseLine(im, st, rawLine, questionIDs) ==
  IF im = "go" THEN GoParseLine(st, rawLine, questionIDs)
  ELSE JsParseLine(st, rawLine, questionIDs)

(***************************************************************************)
(* Inputs of the parser.                                                   *)
(***************************************************************************)
Impls == {"go", "js"}

\* question identifiers in loader order (ORDER BY q.id): distinct, ascending
AllQuestionIDs == <<"q1", "q2", "q3", "q4">>
QuestionIDLists == {SubSeq(AllQuestionIDs, 1, n) : n \in 0..MaxQuestions}

LinePool ==
  { <<>>,
    <<" ", "h", " ">>,
    <<"TRANSCRIPTION", ":">>,
    <<" ", "TRANSCRIPTION", ":", " ", "h", ":", "w", " ">>,
    <<"ANSWERS", ":">>,
    <<"Answer", " ", "1", ":", " ", "h">>,
    <<" ", "Answer", " ", "1", " ", ":", "w", ":", "h", " ">>,
    <<"Answer", " ", "2", ":", " ", "w">>,
    <<"Answer", " ", "9", "9", ":", " ", "w">>,
    <<"Answer", " ", "0", ":", " ", "h">>,
    <<"Answer", " ", "1", "w", ":", " ", "h">>,
    <<"Answer", " ", "2">>,
    <<"Answer", ":", " ", "h">> }

RECURSIVE JoinLines(_)
JoinLines(ls) ==
  IF Len(ls) = 1 THEN ls[1] ELSE ls[1] \o <<NL>> \o JoinLines(Tail(ls))

\* the lines of the reply layout the prompt asks for
LayoutPool ==
  { <<"TRANSCRIPTION", ":">>,
    <<" ", "h", " ">>,
    <<"ANSWERS", ":">>,
    <<"Answer", " ", "1", ":", " ", "h">>,
    <<"Answer", " ", "2", ":", " ", "w">> }

ReparsePool ==
  { <<"TRANSCRIPTION", ":">>,
    <<"ANSWERS", ":">>,
    <<"Answer", " ", "1", ":", " ", "h">> }

LineLists(pool, n) == UNION {[1..k -> pool] : k \in 1..n}
ReplyTexts ==
  {JoinLines(ls) : ls \in LineLists(LinePool, MaxLines)
                          \cup LineLists(LayoutPool, MaxLayoutLines)}
ReparseTexts == {JoinLines(ls) : ls \in LineLists(ReparsePool, MaxReparseLines)}

(***************************************************************************)
(* State.                                                                  *)
(***************************************************************************)
VARIABLES
  impl,          \* which of the two programs runs: "go" or "js"
  responseText,  \* parser: the argument responseText
  questionIDs,   \* parser: the argument questionIDs
  lines,         \* parser: strings.Split(responseText, "\n")
  idx,           \* parser: position of the loop in lines
  locals,        \* parser: transcription, answers, inTranscription, inAnswers
  pc,            \* parser: "idle", "loop", "panic" or "done"
  ret,           \* parser: the returned pair
  first,         \* history: arguments and result of the first completed call
  runs,          \* pipeline: the state of each invocation of ProcessCall
  callAnalysis,  \* database: the callAnalysis column, by call_logs id
  clock          \* time.Now()

\* mutant: inAnswers is not reset by the prologue (as a flag kept outside
\* the function would be)
ParseStartStale ==
  [transcription |-> <<>>, answers |-> NoAnswers,
   inTranscription |-> FALSE, inAnswers |-> locals.inAnswers,
   panicked |-> FALSE]

\* the locals as the prologue of the function sets them: every local is
\* assigned before the loop, nothing is read from an earlier call
ParseStart ==
  [transcription |-> <<>>, answers |-> NoAnswers,
   inTranscription |-> FALSE, inAnswers |-> FALSE, panicked |-> FALSE]


\* the whole function on a list of lines: the loop, stopped by a panic
RECURSIVE ParseLines(_, _, _, _)
ParseLines(im, st, ls, ids) ==
  IF ls = <<>> \/ st.panicked THEN st
  ELSE ParseLines(im, ParseLine(im, st, Head(ls), ids), Tail(ls), ids)

\* return transcription, answers
ParseResult(st) == [transcription |-> st.transcription, answers |-> st.answers]

parseTranscriptionAndAnswers(im, text, ids) ==
  ParseResult(ParseLines(im, ParseStart, Split(text, NL), ids))

(***************************************************************************)
(* The parser as a process: call, loop, return.                            *)
(***************************************************************************)
varsParse ==
  <<impl, responseText, questionIDs, lines, idx, locals, pc, ret, first>>
varsPipe == <<runs, callAnalysis, clock>>
vars ==
  <<impl, responseText, questionIDs, lines, idx, locals, pc, ret, first,
    runs, callAnalysis, clock>>

(***************************************************************************)
(* Values of the pipeline.                                                 *)
(***************************************************************************)
RunIDs == {"r1", "r2"}
CallIDs == {"c1", "c2"}
Null == [null |-> TRUE]

\* an analysis stored by an earlier run
OldAnalysis ==
  [transcription |-> <<"w">>, answers |-> [k \in {"q9"} |-> <<"w">>],
   processed_at |-> 0]

NoCallData == [RecordingURL |-> "?", CampaignID |-> "?"]
NoErr == [step |-> "none", cause |-> "none"]
NoRecord == [none |-> TRUE]

\* the event of an invocation: httpMethod is "" for a direct invocation,
\* call_logsId is the field of the event itself, body the request body
NoEvent == [httpMethod |-> "", call_logsId |-> "", body |-> <<>>]

\* the environment variables that are set
DBVars == {"DB_HOST", "DB_NAME", "DB_USER", "DB_PASSWORD"}
FullEnv ==
  [GEMINI_API_KEY |-> TRUE, DB_CONNECTION_STRING |-> TRUE, dbVars |-> DBVars]

\* no prompt was built (yet): the two texts the prompt template is filled
\* with, and the identifier list kept for the parser
NoPrompt ==
  [built |-> FALSE, questionsText |-> <<>>, answerConstraints |-> <<>>,
   constraintsText |-> <<>>, questionIDs |-> <<>>]

\* an invocation that has not started
UnusedRun ==
  [pc |-> "unused", callLogsID |-> "none",
   db |-> "none", tpdb |-> FALSE,
   callData |-> NoCallData,
   questions |-> <<>>, qState |-> "idle",
   audioContent |-> 0, aState |-> "idle", fetched |-> -1,
   response |-> NoRecord, reply |-> <<>>, transcription |-> <<>>, answers |-> NoAnswers,
   saved |-> NoRecord, result |-> NoRecord, err |-> NoErr,
   issued |-> <<>>, before |-> Null, silent |-> {},
   handler |-> "none", event |-> NoEvent, env |-> FullEnv,
   answer |-> NoRecord, details |-> <<>>, prompt |-> NoPrompt]

PipeIdle ==
  /\ runs = [r \in RunIDs |-> UnusedRun]
  /\ callAnalysis = [c \in CallIDs |-> Null]
  /\ clock = 1

NoResult == [transcription |-> <<"?">>, answers |-> NoAnswers]
NoCall ==
  [set |-> FALSE, text |-> <<>>, ids |-> <<>>, ret |-> NoResult,
   others |-> FALSE]

\* before any call: no locals hold anything
ZeroLocals ==
  [transcription |-> <<>>, answers |-> NoAnswers,
   inTranscription |-> FALSE, inAnswers |-> FALSE, panicked |-> FALSE]

InitParse ==
  /\ impl \in Impls
  /\ responseText = <<>>
  /\ questionIDs = <<>>
  /\ lines = <<>>
  /\ idx = 0
  /\ locals = ZeroLocals
  /\ pc = "idle"
  /\ ret = NoResult
  /\ first = NoCall
  /\ PipeIdle

\* the call and the prologue of parseTranscriptionAndAnswers
ParseCall(texts) ==
  /\ pc = "idle"
  /\ \E text \in texts, ids \in QuestionIDLists :
       /\ responseText' = text
       /\ questionIDs' = ids
       /\ lines' = Split(text, NL)
  /\ idx' = 1
  /\ locals' = ParseStart
  /\ pc' = "loop"
  /\ UNCHANGED <<impl, ret, first>>
  /\ UNCHANGED varsPipe

\* one iteration of for _, line := range lines
ParseStep ==
  /\ pc = "loop"
  /\ idx <= Len(lines)
  /\ locals' = ParseLine(impl, locals, lines[idx], questionIDs)
  /\ idx' = idx + 1
  /\ pc' = IF locals'.panicked THEN "panic" ELSE "loop"
  /\ UNCHANGED <<impl, responseText, questionIDs, lines, ret, first>>
  /\ UNCHANGED varsPipe

\* return transcription, answers
ParseReturn ==
  /\ pc = "loop"
  /\ idx > Len(lines)
  /\ ret' = ParseResult(locals)
  /\ pc' = "done"
  /\ first' = IF first.set
              THEN [first EXCEPT !.others =
                      @ \/ responseText # first.text
                        \/ questionIDs # first.ids]
              ELSE [set |-> TRUE, text |-> responseText, ids |-> questionIDs,
                    ret |-> ret', others |-> FALSE]
  /\ UNCHANGED <<impl, responseText, questionIDs, lines, idx, locals>>
  /\ UNCHANGED varsPipe

\* the caller goes on; what the call left in memory stays there
ParseAgain ==
  /\ pc = "done"
  /\ pc' = "idle"
  /\ UNCHANGED <<impl, responseText, questionIDs, lines, idx, locals, ret,
                 first>>
  /\ UNCHANGED varsPipe

NextParse ==
  \/ ParseCall(ReplyTexts)
  \/ ParseStep
  \/ ParseReturn

SpecParse == InitParse /\ [][NextParse]_vars

NextReparse ==
  \/ ParseCall(ReparseTexts)
  \/ ParseStep
  \/ ParseReturn
  \/ ParseAgain

SpecReparse == InitParse /\ [][NextReparse]_vars

\* replies for the comparison of the two parsers: answer lines whose index
\* is a plain numeral, has leading zeros, is empty or is no numeral, and
\* lines with a character only one of the languages trims
IndexPool ==
  { <<"TRANSCRIPTION", ":", " ", "h">>,
    <<"ANSWERS", ":">>,
    <<" ", "w", " ">>,
    <<"Answer", " ", "1", ":", " ", "h">>,
    <<"Answer", " ", "0", "2", ":", " ", "w">>,
    <<"Answer", " ", ":", " ", "h">>,
    <<"Answer", " ", "1", "w", ":", " ", "h">>,
    <<BOM, "TRANSCRIPTION", ":", " ", "w">>,
    <<"w", NEL>> }
IndexTexts == {JoinLines(ls) : ls \in LineLists(IndexPool, MaxLines)}

NextIndex ==
  \/ ParseCall(IndexTexts)
  \/ ParseStep
  \/ ParseReturn

SpecIndex == InitParse /\ [][NextIndex]_vars

(***************************************************************************)
(* The pipeline: ProcessCall (Go) and processCall (Node.js).  One action   *)
(* per external operation, with the local code that follows it up to the   *)
(* next one.  issued, saved and before are history: the operations issued  *)
(* by the run, what its writer stored, and the stored analysis of its call *)
(* when it started; reply is the text the AI client returned, fetched the  *)
(* number of bytes the audio host delivered (-1: none yet), response what  *)
(* the AI endpoint answered the Go client.                                 *)
(***************************************************************************)
\* replies of the AI model
PipelineReplies ==
  { JoinLines(<< <<"TRANSCRIPTION", ":">>, <<" ", "h", " ">>,
                 <<"ANSWERS", ":">>,
                 <<"Answer", " ", "1", ":", " ", "h">>,
                 <<"Answer", " ", "2", ":", " ", "w">> >>),
    JoinLines(<< <<" ", "h", " ">> >>),
    JoinLines(<< <<"ANSWERS", ":">>,
                 <<"Answer", " ", "1", ":", " ", "h">> >>),
    JoinLines(<< <<" ">>, <<"TRANSCRIPTION", ":", " ", "h">>, <<>>,
                 <<"ANSWERS", ":">>,
                 <<"Answer", " ", "1", ":", " ", "w">>, <<" ">> >>) }

\* rows of call_logs: recording_url and campaignId, each possibly empty
CallRows == [RecordingURL : {"", "u"}, CampaignID : {"", "k"}]

\* what the table can hold under an identifier: nothing for an identifier
\* that is not one of its keys
RowsOf(c) == IF c \in CallIDs THEN CallRows ELSE {}

Running(r) ==
  runs[r].pc \notin {"unused", "done", "failed", "blocked", "answered"}

\* the endpoints an invocation talks to, and the one each operation uses
Endpoints == {"db", "audio", "ai"}
Endpoint(op) ==
  CASE op \in {"connect", "getCall", "getQuestions", "save"} -> "db"
    [] op = "download" -> "audio"
    [] op = "ai" -> "ai"

\* the endpoint answers the run's operation (silent: the endpoints that
\* never answer this invocation)
Responds(run, op) == Endpoint(op) \notin run.silent

\* the operation has a timeout.  Go: the connection string sets
\* connect_timeout and statement_timeout, the two AI clients set
\* http.Client.Timeout, http.Get uses the default client, which has none.
\* Node.js: connectionTimeoutMillis for the connection and no timeout for
\* a query, axios timeouts for the download and the AI request.
Bounded(im, op) ==
  IF im = "go"
  THEN op \in {"connect", "getCall", "getQuestions", "save", "ai"}
  ELSE op \in {"connect", "download", "ai"}

\* mutant: the reply is held in a buffer that all invocations share
PutShared(r, run) ==
  runs' = [x \in RunIDs |->
             IF x = r THEN run ELSE [runs[x] EXCEPT !.reply = run.reply]]

Put(r, run) == runs' = [runs EXCEPT ![r] = run]
Issue(run, op) == [run EXCEPT !.issued = Append(@, op)]

\* a failure after which the run tries the same step again
FailRunRetry(run, step, cause) ==
  [run EXCEPT !.err = [step |-> step, cause |-> cause]]

\* a failure that is recorded but does not stop the run
FailRunContinue(run, step, cause) ==
  [run EXCEPT !.pc = "save",
              !.err = [step |-> step, cause |-> cause]]

\* Go: return nil, err after defer tp.CloseDatabase() is in place.
\* Node.js: throw, through catch (rethrow) and finally (closeDatabase).
FailRun(run, step, cause) ==
  [run EXCEPT !.pc = "failed",
              !.err = [step |-> step, cause |-> cause],
              !.db = IF run.tpdb THEN "closed" ELSE @]

\* Go: ConnectToDatabase and its check.  A failed Ping leaves the handle of
\* sql.Open unassigned; the deferred close is not yet registered.
GoConnect(r) ==
  /\ impl = "go"
  /\ runs[r].pc = "start"
  /\ Responds(runs[r], "connect")
  /\ \E outcome \in {"ok", "openFail", "pingFail"} :
       LET run == Issue(runs[r], "connect") IN
       Put(r, CASE outcome = "ok" ->
                     [run EXCEPT !.db = "open", !.tpdb = TRUE, !.pc = "getCall"]
                [] outcome = "openFail" ->
                     [run EXCEPT !.pc = "failed",
                                 !.err = [step |-> "connect", cause |-> outcome]]
                [] outcome = "pingFail" ->
                     [run EXCEPT !.db = "open", !.pc = "failed",
                                 !.err = [step |-> "connect", cause |-> outcome]])
  /\ UNCHANGED <<callAnalysis, clock, impl>>
  /\ UNCHANGED <<responseText, questionIDs, lines, idx, locals, pc, ret, first>>

\* a load of the call record that does not look at the campaign
GoGetCallDataNoCampaignCheck(r) ==
  /\ impl = "go"
  /\ runs[r].pc = "getCall"
  /\ Responds(runs[r], "getCall")
  /\ LET run == Issue(runs[r], "getCall") IN
       \/ \E cause \in {"notFound", "queryError"} :
            Put(r, FailRun(run, "getCall", cause))
       \/ \E row \in RowsOf(run.callLogsID) :
            LET got == [run EXCEPT !.callData = row] IN
            Put(r, IF row.RecordingURL = ""
                   THEN FailRun(got, "checkCall", "noRecordingURL")
                   ELSE [got EXCEPT !.pc = "getQuestions"])
  /\ UNCHANGED <<callAnalysis, clock, impl>>
  /\ UNCHANGED <<responseText, questionIDs, lines, idx, locals, pc, ret, first>>

\* Go: GetCallData and the two checks of the record
GoGetCallData(r) ==
  /\ impl = "go"
  /\ runs[r].pc = "getCall"
  /\ Responds(runs[r], "getCall")
  /\ LET run == Issue(runs[r], "getCall") IN
       \/ \E cause \in {"notFound", "queryError"} :
            Put(r, FailRun(run, "getCall", cause))
       \/ \E row \in RowsOf(run.callLogsID) :
            LET got == [run EXCEPT !.callData = row] IN
            Put(r, IF row.RecordingURL = ""
                   THEN FailRun(got, "checkCall", "noRecordingURL")
                   ELSE IF row.CampaignID = ""
                   THEN FailRun(got, "checkCall", "noCampaignID")
                   ELSE [got EXCEPT !.pc = "getQuestions"])
  /\ UNCHANGED <<callAnalysis, clock, impl>>
  /\ UNCHANGED <<responseText, questionIDs, lines, idx, locals, pc, ret, first>>

\* Go: GetQuestionsForCampaign
GoGetQuestions(r) ==
  /\ impl = "go"
  /\ runs[r].pc = "getQuestions"
  /\ Responds(runs[r], "getQuestions")
  /\ LET run == Issue(runs[r], "getQuestions") IN
       \/ \E cause \in {"queryError", "scanError", "detailsError"} :
            Put(r, FailRun([run EXCEPT !.qState = "failed"],
                           "getQuestions", cause))
       \/ \E ids \in QuestionIDLists :
            Put(r, [run EXCEPT !.questions = ids, !.qState = "ok",
                               !.pc = "download"])
  /\ UNCHANGED <<callAnalysis, clock, impl>>
  /\ UNCHANGED <<responseText, questionIDs, lines, idx, locals, pc, ret, first>>

\* a download that takes an empty body for audio
GoDownloadAudioAcceptsEmpty(r) ==
  /\ impl = "go"
  /\ runs[r].pc = "download"
  /\ Responds(runs[r], "download")
  /\ LET run == Issue(runs[r], "download") IN
       \/ \E cause \in {"transport", "status", "readError"} :
            Put(r, FailRun([run EXCEPT !.aState = "failed"],
                           "download", cause))
       \/ \E size \in {0, 1} :
            Put(r, [run EXCEPT !.audioContent = size, !.aState = "ok",
                               !.fetched = size, !.pc = "ai"])
  /\ UNCHANGED <<callAnalysis, clock, impl>>
  /\ UNCHANGED <<responseText, questionIDs, lines, idx, locals, pc, ret, first>>

\* Go: DownloadAudio and the check of the length; the outcome is a failure
\* or the number of bytes read
GoDownloadAudio(r) ==
  /\ impl = "go"
  /\ runs[r].pc = "download"
  /\ Responds(runs[r], "download")
  /\ LET run == Issue(runs[r], "download") IN
       \/ \E cause \in {"transport", "status", "readError"} :
            Put(r, FailRun([run EXCEPT !.aState = "failed"],
                           "download", cause))
       \/ \E size \in {0, 1} :
            LET got == [run EXCEPT !.audioContent = size, !.aState = "ok",
                                   !.fetched = size] IN
            Put(r, IF size = 0
                   THEN FailRun(got, "checkAudio", "emptyAudio")
                   ELSE [got EXCEPT !.pc = "ai"])
  /\ UNCHANGED <<callAnalysis, clock, impl>>
  /\ UNCHANGED <<responseText, questionIDs, lines, idx, locals, pc, ret, first>>

\* http.StatusOK
StatusOK == 200

\* what the AI endpoint may answer: nothing (sent = FALSE), or a status
\* and a body that is JSON or not, the JSON holding candidates, each a
\* list of parts, each a text
GoAIResponses ==
  [sent : BOOLEAN, status : {StatusOK, 500}, json : BOOLEAN,
   candidates : {<<>>, << <<>> >>}
                  \cup {<< <<text>> >> : text \in {<<>>} \cup PipelineReplies}]

\* a client that takes a reply without candidates or parts for an empty
\* transcription
GoAIClientCoercesEmpty(mode, resp) ==
  IF ~resp.sent
  THEN [err |-> "error making request", text |-> <<>>]
  ELSE IF resp.status # StatusOK
  THEN [err |-> "gemini API error: status", text |-> <<>>]
  ELSE IF ~resp.json
  THEN [err |-> "error decoding response", text |-> <<>>]
  ELSE IF Len(resp.candidates) = 0 \/ Len(resp.candidates[1]) = 0
  THEN [err |-> "none", text |-> <<>>]
  ELSE [err |-> "none", text |-> resp.candidates[1][1]]

\* Go: TranscribeAudioOnly (mode "transcribe") and ProcessAudioWithGemini
\* (mode "answer") from client.Do to the text of the first part: the error
\* message, or "none" and the text
GoAIClient(mode, resp) ==
  IF ~resp.sent
  THEN [err |-> "error making request", text |-> <<>>]
  ELSE IF resp.status # StatusOK
  THEN [err |-> "gemini API error: status", text |-> <<>>]
  ELSE IF ~resp.json
  THEN [err |-> "error decoding response", text |-> <<>>]
  ELSE IF Len(resp.candidates) = 0
  THEN [err |-> "no response generated from Gemini API", text |-> <<>>]
  ELSE IF Len(resp.candidates[1]) = 0
  THEN [err |-> "no content parts in Gemini response", text |-> <<>>]
  ELSE IF resp.candidates[1][1] = <<>>
  THEN [err |-> IF mode = "transcribe"
                THEN "empty transcription received from Gemini API"
                ELSE "empty response received from Gemini API",
        text |-> <<>>]
  ELSE [err |-> "none", text |-> resp.candidates[1][1]]

\* Go: the branch of ProcessCall on len(questions)
GoAIMode(run) == IF Len(run.questions) = 0 THEN "transcribe" ELSE "answer"

\* an AI step that parses every reply, against the whole catalog when the
\* campaign has no questions
GoGeminiParsesAnyway(r) ==
  /\ impl = "go"
  /\ runs[r].pc = "ai"
  /\ Responds(runs[r], "ai")
  /\ \E resp \in GoAIResponses :
       LET run == [Issue(runs[r], "ai") EXCEPT !.response = resp]
           out == GoAIClient(GoAIMode(run), resp)
           got == [run EXCEPT !.reply = out.text]
           parsed == parseTranscriptionAndAnswers(
                       "go", out.text,
                       IF Len(run.questions) = 0 THEN AllQuestionIDs
                       ELSE run.questions) IN
       Put(r, IF out.err # "none"
              THEN FailRun(run, "ai", out.err)
              ELSE [got EXCEPT !.transcription = parsed.transcription,
                               !.answers = parsed.answers, !.pc = "save"])
  /\ UNCHANGED <<callAnalysis, clock, impl>>
  /\ UNCHANGED <<responseText, questionIDs, lines, idx, locals, pc, ret, first>>

\* an AI step that takes a reply without a transcription for an error
GoGeminiRejectsEmpty(r) ==
  /\ impl = "go"
  /\ runs[r].pc = "ai"
  /\ Responds(runs[r], "ai")
  /\ \E resp \in GoAIResponses :
       LET run == [Issue(runs[r], "ai") EXCEPT !.response = resp]
           out == GoAIClient(GoAIMode(run), resp)
           got == [run EXCEPT !.reply = out.text]
           parsed == parseTranscriptionAndAnswers(
                       "go", out.text, run.questions) IN
       Put(r, IF out.err # "none"
              THEN FailRun(run, "ai", out.err)
              ELSE IF GoAIMode(run) = "transcribe"
              THEN [got EXCEPT !.transcription = out.text,
                               !.answers = NoAnswers, !.pc = "save"]
              ELSE IF parsed.transcription = <<>>
              THEN FailRun(got, "ai", "no transcription in reply")
              ELSE [got EXCEPT !.transcription = parsed.transcription,
                               !.answers = parsed.answers, !.pc = "save"])
  /\ UNCHANGED <<callAnalysis, clock, impl>>
  /\ UNCHANGED <<responseText, questionIDs, lines, idx, locals, pc, ret, first>>

\* an AI step whose transcribe-only branch trims the reply
GoGeminiTrimsReply(r) ==
  /\ impl = "go"
  /\ runs[r].pc = "ai"
  /\ Responds(runs[r], "ai")
  /\ \E resp \in GoAIResponses :
       LET run == [Issue(runs[r], "ai") EXCEPT !.response = resp]
           out == GoAIClient(GoAIMode(run), resp)
           got == [run EXCEPT !.reply = out.text] IN
       Put(r, IF out.err # "none"
              THEN FailRun(run, "ai", out.err)
              ELSE IF GoAIMode(run) = "transcribe"
              THEN [got EXCEPT !.transcription = TrimSpace(out.text),
                               !.answers = NoAnswers, !.pc = "save"]
              ELSE LET parsed == parseTranscriptionAndAnswers(
                                   "go", out.text, run.questions) IN
                   [got EXCEPT !.transcription = parsed.transcription,
                               !.answers = parsed.answers, !.pc = "save"])
  /\ UNCHANGED <<callAnalysis, clock, impl>>
  /\ UNCHANGED <<responseText, questionIDs, lines, idx, locals, pc, ret, first>>

\* Go: TranscribeAudioOnly when there are no questions, else
\* ProcessAudioWithGemini, which parses the reply
GoGemini(r) ==
  /\ impl = "go"
  /\ runs[r].pc = "ai"
  /\ Responds(runs[r], "ai")
  /\ \E resp \in GoAIResponses :
       LET run == [Issue(runs[r], "ai") EXCEPT !.response = resp]
           out == GoAIClient(GoAIMode(run), resp)
           got == [run EXCEPT !.reply = out.text] IN
       Put(r, IF out.err # "none"
              THEN FailRun(run, "ai", out.err)
              ELSE IF GoAIMode(run) = "transcribe"
              THEN [got EXCEPT !.transcription = out.text,
                               !.answers = NoAnswers, !.pc = "save"]
              ELSE LET parsed == parseTranscriptionAndAnswers(
                                   "go", out.text, run.questions) IN
                   [got EXCEPT !.transcription = parsed.transcription,
                               !.answers = parsed.answers, !.pc = "save"])
  /\ UNCHANGED <<callAnalysis, clock, impl>>
  /\ UNCHANGED <<responseText, questionIDs, lines, idx, locals, pc, ret, first>>

\* a document that keeps what the stored analysis of the call holds
AnalysisDataMerged(run) ==
  LET old == callAnalysis[run.callLogsID] IN
  IF old = Null
  THEN [transcription |-> run.transcription, answers |-> run.answers,
        processed_at |-> clock]
  ELSE [transcription |-> old.transcription \o run.transcription,
        answers |-> [k \in DOMAIN old.answers \cup DOMAIN run.answers |->
                       IF k \in DOMAIN run.answers THEN run.answers[k]
                       ELSE old.answers[k]],
        processed_at |-> clock]

\* the JSON document SaveCallAnalysis / saveCallAnalysis writes
AnalysisData(run) ==
  [transcription |-> run.transcription, answers |-> run.answers,
   processed_at |-> clock]

\* a writer whose error is dropped by the caller
SaveIgnoringError(r) ==
  /\ runs[r].pc = "save"
  /\ Responds(runs[r], "save")
  /\ \E outcome \in {"ok", "execError"} :
       LET run == Issue(runs[r], "save") IN
       IF outcome = "ok"
       THEN /\ callAnalysis' =
                 [callAnalysis EXCEPT ![run.callLogsID] = AnalysisData(run)]
            /\ Put(r, [run EXCEPT !.saved = AnalysisData(run),
                                  !.pc = "return"])
       ELSE /\ UNCHANGED callAnalysis
            /\ Put(r, [run EXCEPT !.pc = "return"])
  /\ UNCHANGED <<clock, impl>>
  /\ UNCHANGED <<responseText, questionIDs, lines, idx, locals, pc, ret, first>>

\* a writer that sets the transcription in one statement and the answers
\* and the timestamp in a second one
SaveInTwoStatements(r) ==
  /\ Responds(runs[r], "save")
  /\ \/ /\ runs[r].pc = "save"
        /\ LET old == callAnalysis[runs[r].callLogsID] IN
             callAnalysis' =
               [callAnalysis EXCEPT ![runs[r].callLogsID] =
                  [transcription |-> runs[r].transcription,
                   answers |-> IF old = Null THEN NoAnswers ELSE old.answers,
                   processed_at |-> IF old = Null THEN 0 ELSE old.processed_at]]
        /\ Put(r, [Issue(runs[r], "save") EXCEPT !.pc = "save2"])
     \/ /\ runs[r].pc = "save2"
        /\ callAnalysis' =
             [callAnalysis EXCEPT ![runs[r].callLogsID] =
                [@ EXCEPT !.answers = runs[r].answers, !.processed_at = clock]]
        /\ Put(r, [runs[r] EXCEPT !.saved = AnalysisData(runs[r]),
                                  !.pc = "return"])
  /\ UNCHANGED <<clock, impl>>
  /\ UNCHANGED <<responseText, questionIDs, lines, idx, locals, pc, ret, first>>

\* both: SaveCallAnalysis, UPDATE call_logs SET "callAnalysis" = $1
\* WHERE id = $2
Save(r) ==
  /\ runs[r].pc = "save"
  /\ Responds(runs[r], "save")
  /\ \E outcome \in {"ok", "execError"} :
       LET run == Issue(runs[r], "save") IN
       IF outcome = "ok"
       THEN /\ callAnalysis' =
                 [callAnalysis EXCEPT ![run.callLogsID] = AnalysisData(run)]
            /\ Put(r, [run EXCEPT !.saved = AnalysisData(run),
                                  !.pc = "return"])
       ELSE /\ UNCHANGED callAnalysis
            /\ Put(r, FailRun(run, "save", outcome))
  /\ UNCHANGED <<clock, impl>>
  /\ UNCHANGED <<responseText, questionIDs, lines, idx, locals, pc, ret, first>>

\* the result record of a run
ResultRecord(run) ==
  [call_logsId |-> run.callLogsID, campaignId |-> run.callData.CampaignID,
   transcription |-> run.transcription, answers |-> run.answers,
   processed_at |-> clock]

\* both: the result is built and returned; the database is closed (Go:
\* the deferred CloseDatabase, Node.js: finally)
Return(r) ==
  /\ runs[r].pc = "return"
  /\ Put(r, [runs[r] EXCEPT !.result = ResultRecord(runs[r]),
                            !.pc = "done", !.db = "closed"])
  /\ UNCHANGED <<callAnalysis, clock, impl>>
  /\ UNCHANGED <<responseText, questionIDs, lines, idx, locals, pc, ret, first>>

\* Node.js: the connection string is set, or else all of DB_HOST, DB_NAME,
\* DB_USER and DB_PASSWORD
HasDBConfig(env) == env.DB_CONNECTION_STRING \/ env.dbVars = DBVars

\* Node.js: connectToDatabase.  configFail: the connection string does not
\* parse or environment variables are missing, no client is created.
JsConnect(r) ==
  /\ impl = "js"
  /\ runs[r].pc = "start"
  /\ Responds(runs[r], "connect")
  /\ \E outcome \in {"ok", "configFail", "connectFail"} :
       LET run == Issue(runs[r], "connect") IN
       /\ ~HasDBConfig(run.env) => outcome = "configFail"
       /\ Put(r, CASE outcome = "ok" ->
                        [run EXCEPT !.db = "open", !.tpdb = TRUE, !.pc = "getCall"]
                   [] outcome = "configFail" -> FailRun(run, "connect", outcome)
                   [] outcome = "connectFail" ->
                        FailRun([run EXCEPT !.db = "open", !.tpdb = TRUE],
                                "connect", outcome))
  /\ UNCHANGED <<callAnalysis, clock, impl>>
  /\ UNCHANGED <<responseText, questionIDs, lines, idx, locals, pc, ret, first>>

\* Node.js: getCallData, the check of the record, and the start of both
\* getQuestionsForCampaign and downloadAudio (the arguments of Promise.all)
JsGetCallData(r) ==
  /\ impl = "js"
  /\ runs[r].pc = "getCall"
  /\ Responds(runs[r], "getCall")
  /\ LET run == Issue(runs[r], "getCall") IN
       \/ \E cause \in {"notFound", "queryError"} :
            Put(r, FailRun(run, "getCall", cause))
       \/ \E row \in RowsOf(run.callLogsID) :
            LET got == [run EXCEPT !.callData = row] IN
            Put(r, IF row.RecordingURL = "" \/ row.CampaignID = ""
                   THEN FailRun(got, "checkCall", "missingURLOrCampaign")
                   ELSE [Issue(Issue(got, "getQuestions"), "download")
                           EXCEPT !.qState = "pending",
                                  !.aState = "pending", !.pc = "loadBoth"])
  /\ UNCHANGED <<callAnalysis, clock, impl>>
  /\ UNCHANGED <<responseText, questionIDs, lines, idx, locals, pc, ret, first>>

\* mutant: the run goes on to the AI request as soon as the questions are
\* there, without waiting for the audio
JsQuestionsSettledNoJoin(r) ==
  /\ impl = "js"
  /\ runs[r].qState = "pending"
  /\ Responds(runs[r], "getQuestions")
  /\ LET run == runs[r] IN
       \/ \E cause \in {"queryError", "detailsError"} :
            Put(r, IF run.pc = "loadBoth"
                   THEN FailRun([run EXCEPT !.qState = "failed"],
                                "getQuestions", cause)
                   ELSE [run EXCEPT !.qState = "failed"])
       \/ \E ids \in QuestionIDLists :
            Put(r, IF run.pc = "loadBoth"
                   THEN [run EXCEPT !.questions = ids, !.qState = "ok",
                                    !.pc = "ai"]
                   ELSE [run EXCEPT !.qState = "ok"])
  /\ UNCHANGED <<callAnalysis, clock, impl>>
  /\ UNCHANGED <<responseText, questionIDs, lines, idx, locals, pc, ret, first>>

\* Node.js: getQuestionsForCampaign settles.  Promise.all rejects with the
\* first rejection and resolves when both have resolved; a run that has
\* already failed ignores the outcome.
JsQuestionsSettled(r) ==
  /\ impl = "js"
  /\ runs[r].qState = "pending"
  /\ Responds(runs[r], "getQuestions")
  /\ LET run == runs[r] IN
       \/ \E cause \in {"queryError", "detailsError"} :
            Put(r, IF run.pc = "loadBoth"
                   THEN FailRun([run EXCEPT !.qState = "failed"],
                                "getQuestions", cause)
                   ELSE [run EXCEPT !.qState = "failed"])
       \/ \E ids \in QuestionIDLists :
            Put(r, IF run.pc = "loadBoth"
                   THEN [run EXCEPT !.questions = ids, !.qState = "ok",
                           !.pc = IF run.aState = "ok" THEN "ai" ELSE @]
                   ELSE [run EXCEPT !.qState = "ok"])
  /\ UNCHANGED <<callAnalysis, clock, impl>>
  /\ UNCHANGED <<responseText, questionIDs, lines, idx, locals, pc, ret, first>>

\* Node.js: downloadAudio settles; an empty body is an error of its own
JsAudioSettled(r) ==
  /\ impl = "js"
  /\ runs[r].aState = "pending"
  /\ Responds(runs[r], "download")
  /\ LET run == runs[r] IN
       \/ \E cause \in {"transport", "status"} :
            Put(r, IF run.pc = "loadBoth"
                   THEN FailRun([run EXCEPT !.aState = "failed"],
                                "download", cause)
                   ELSE [run EXCEPT !.aState = "failed"])
       \/ \E size \in {0, 1} :
            LET got == [run EXCEPT !.fetched = size] IN
            Put(r, IF size = 0
                   THEN IF run.pc = "loadBoth"
                        THEN FailRun([got EXCEPT !.aState = "failed"],
                                     "download", "emptyAudio")
                        ELSE [got EXCEPT !.aState = "failed"]
                   ELSE IF run.pc = "loadBoth"
                   THEN [got EXCEPT !.audioContent = size, !.aState = "ok",
                           !.pc = IF run.qState = "ok" THEN "ai" ELSE @]
                   ELSE [got EXCEPT !.aState = "ok"])
  /\ UNCHANGED <<callAnalysis, clock, impl>>
  /\ UNCHANGED <<responseText, questionIDs, lines, idx, locals, pc, ret, first>>

\* Node.js: callGeminiAPI throws on a transport error, on a non-2xx status
\* and when the reply holds no text
JsAIFailures == {"transport", "status", "invalidResponse"}

\* Node.js: callGeminiAPI alone when there are no questions, else
\* processAudioWithGemini, which parses the reply
JsGemini(r) ==
  /\ impl = "js"
  /\ runs[r].pc = "ai"
  /\ Responds(runs[r], "ai")
  /\ LET run == Issue(runs[r], "ai") IN
       \/ \E cause \in JsAIFailures :
            Put(r, FailRun(run, "ai", cause))
       \/ \E text \in PipelineReplies :
            LET got == [run EXCEPT !.reply = text] IN
            Put(r, IF Len(run.questions) = 0
                   THEN [got EXCEPT !.transcription = text,
                                    !.answers = NoAnswers, !.pc = "save"]
                   ELSE LET parsed == parseTranscriptionAndAnswers(
                                        "js", text, run.questions) IN
                        [got EXCEPT !.transcription = parsed.transcription,
                                    !.answers = parsed.answers,
                                    !.pc = "save"])
  /\ UNCHANGED <<callAnalysis, clock, impl>>
  /\ UNCHANGED <<responseText, questionIDs, lines, idx, locals, pc, ret, first>>

\* time passes while a run is under way
Tick ==
  /\ clock < MaxClock
  /\ \E r \in RunIDs : Running(r)
  /\ clock' = clock + 1
  /\ UNCHANGED <<runs, callAnalysis, impl>>
  /\ UNCHANGED <<responseText, questionIDs, lines, idx, locals, pc, ret, first>>

\* an invocation for call c, about to connect
StartRun(c) ==
  [UnusedRun EXCEPT !.pc = "start", !.callLogsID = c,
                    !.before = IF c \in CallIDs THEN callAnalysis[c] ELSE Null]

\* one invocation, on a database that holds earlier analyses or none
Init ==
  /\ impl \in Impls
  /\ responseText = <<>>
  /\ questionIDs = <<>>
  /\ lines = <<>>
  /\ idx = 0
  /\ locals = ZeroLocals
  /\ pc = "idle"
  /\ ret = NoResult
  /\ first = NoCall
  /\ callAnalysis \in [CallIDs -> {Null, OldAnalysis}]
  /\ clock = 1
  /\ \E c \in CallIDs :
       runs = [r \in RunIDs |-> IF r = "r1" THEN StartRun(c) ELSE UnusedRun]

Next ==
  \/ \E r \in RunIDs : GoConnect(r)
  \/ \E r \in RunIDs : GoGetCallData(r)
  \/ \E r \in RunIDs : GoGetQuestions(r)
  \/ \E r \in RunIDs : GoDownloadAudio(r)
  \/ \E r \in RunIDs : GoGemini(r)
  \/ \E r \in RunIDs : JsConnect(r)
  \/ \E r \in RunIDs : JsGetCallData(r)
  \/ \E r \in RunIDs : JsQuestionsSettled(r)
  \/ \E r \in RunIDs : JsAudioSettled(r)
  \/ \E r \in RunIDs : JsGemini(r)
  \/ \E r \in RunIDs : Save(r)
  \/ \E r \in RunIDs : Return(r)
  \/ Tick

Spec == Init /\ [][Next]_vars

(***************************************************************************)
(* Endpoints that never answer.  An operation on such an endpoint ends     *)
(* when its timeout expires, if it has one; if it has none the call never  *)
(* returns and the invocation is blocked in it.                            *)
(***************************************************************************)
\* the operation a sequential step is about to issue
OpAt(at) == IF at = "start" THEN "connect" ELSE at

SequentialSteps ==
  {"start", "getCall", "getQuestions", "download", "ai", "save"}

\* the timeout of the operation expires: the client reports an error and
\* the run fails as for any other error of that operation
TimeoutExpires(r) ==
  /\ runs[r].pc \in SequentialSteps
  /\ LET op == OpAt(runs[r].pc)
         run == Issue(runs[r], op) IN
       /\ ~Responds(runs[r], op)
       /\ Bounded(impl, op)
       /\ Put(r, CASE op = "connect" /\ impl = "go" ->
                       [run EXCEPT !.db = "open", !.pc = "failed",
                                   !.err = [step |-> op, cause |-> "timeout"]]
                  [] op = "connect" /\ impl = "js" ->
                       FailRun([run EXCEPT !.db = "open", !.tpdb = TRUE],
                               op, "timeout")
                  [] op = "getQuestions" ->
                       FailRun([run EXCEPT !.qState = "failed"], op, "timeout")
                  [] op = "download" ->
                       FailRun([run EXCEPT !.aState = "failed"], op, "timeout")
                  [] OTHER -> FailRun(run, op, "timeout"))
  /\ UNCHANGED <<callAnalysis, clock, impl>>
  /\ UNCHANGED <<responseText, questionIDs, lines, idx, locals, pc, ret, first>>

\* the operation has no timeout: the call is issued and never returns
Hang(r) ==
  /\ runs[r].pc \in SequentialSteps
  /\ LET op == OpAt(runs[r].pc) IN
       /\ ~Responds(runs[r], op)
       /\ ~Bounded(impl, op)
       /\ Put(r, [Issue(runs[r], op) EXCEPT !.pc = "blocked"])
  /\ UNCHANGED <<callAnalysis, clock, impl>>
  /\ UNCHANGED <<responseText, questionIDs, lines, idx, locals, pc, ret, first>>

\* Node.js: the state of one of the two operations started together
LoadState(run, op) == IF op = "getQuestions" THEN run.qState ELSE run.aState

\* Node.js: the timeout of one of the two operations started together
\* expires; it rejects, and so does Promise.all unless it already has
JsLoadTimeout(r) ==
  /\ impl = "js"
  /\ \E op \in {"getQuestions", "download"} :
       LET run == runs[r]
           settled == IF op = "getQuestions"
                      THEN [run EXCEPT !.qState = "failed"]
                      ELSE [run EXCEPT !.aState = "failed"] IN
       /\ LoadState(run, op) = "pending"
       /\ ~Responds(run, op)
       /\ Bounded("js", op)
       /\ Put(r, IF run.pc = "loadBoth"
                  THEN FailRun(settled, op, "timeout")
                  ELSE settled)
  /\ UNCHANGED <<callAnalysis, clock, impl>>
  /\ UNCHANGED <<responseText, questionIDs, lines, idx, locals, pc, ret, first>>

\* Node.js: Promise.all never settles: none of the two operations has
\* rejected, and what is pending has no timeout and will get no answer
JsLoadHang(r) ==
  /\ impl = "js"
  /\ runs[r].pc = "loadBoth"
  /\ LET run == runs[r]
         stuck(op) == /\ LoadState(run, op) = "pending"
                      /\ ~Responds(run, op)
                      /\ ~Bounded("js", op) IN
       /\ stuck("getQuestions") \/ stuck("download")
       /\ \A op \in {"getQuestions", "download"} :
            stuck(op) \/ LoadState(run, op) = "ok"
       /\ Put(r, [run EXCEPT !.pc = "blocked"])
  /\ UNCHANGED <<callAnalysis, clock, impl>>
  /\ UNCHANGED <<responseText, questionIDs, lines, idx, locals, pc, ret, first>>

\* an endpoint stops answering the invocation, for good
FallSilent(r) ==
  /\ Running(r)
  /\ \E e \in Endpoints \ runs[r].silent :
       Put(r, [runs[r] EXCEPT !.silent = @ \cup {e}])
  /\ UNCHANGED <<callAnalysis, clock, impl>>
  /\ UNCHANGED <<responseText, questionIDs, lines, idx, locals, pc, ret, first>>

\* one invocation, some of whose endpoints never answer
InitSilent ==
  /\ impl \in Impls
  /\ responseText = <<>>
  /\ questionIDs = <<>>
  /\ lines = <<>>
  /\ idx = 0
  /\ locals = ZeroLocals
  /\ pc = "idle"
  /\ ret = NoResult
  /\ first = NoCall
  /\ callAnalysis \in [CallIDs -> {Null, OldAnalysis}]
  /\ clock = 1
  /\ \E c \in CallIDs, quiet \in SUBSET Endpoints :
       runs = [r \in RunIDs |->
                 IF r = "r1" THEN [StartRun(c) EXCEPT !.silent = quiet]
                 ELSE UnusedRun]

NextSilent ==
  \/ Next
  \/ \E r \in RunIDs : TimeoutExpires(r)
  \/ \E r \in RunIDs : Hang(r)
  \/ \E r \in RunIDs : JsLoadTimeout(r)
  \/ \E r \in RunIDs : JsLoadHang(r)
  \/ \E r \in RunIDs : FallSilent(r)

\* the program takes its next step whenever it has one
SpecSilent == InitSilent /\ [][NextSilent]_vars /\ WF_vars(NextSilent)

(***************************************************************************)
(* The entry points: LambdaHandler (Go), exports.handler (Node.js) and the *)
(* two HandleRequest functions of the API Gateway Lambda.  A request body  *)
(* is a sequence of JSON tokens: the braces, the colon, the literal null,  *)
(* and one token per string.  The bodies are JSON values that are null or  *)
(* an object of at most one member whose value is a string or null, and    *)
(* texts that are no JSON value.                                           *)
(***************************************************************************)
UnknownCall == "c0"
JsonStrings == {"call_logsId", "other"} \cup CallIDs \cup {UnknownCall}

\* encoding/json and JSON.parse on a body: ok is false for a text that is
\* no JSON value; isNull for the literal null; members maps the keys of an
\* object to the string value or to "null"
JsonParse(body) ==
  LET bad == [ok |-> FALSE, isNull |-> FALSE, members |-> <<>>]
      n == Len(body) IN
  IF body = <<"null">>
  THEN [ok |-> TRUE, isNull |-> TRUE, members |-> <<>>]
  ELSE IF n >= 2 /\ body[1] = "{" /\ body[n] = "}"
  THEN IF n = 2
       THEN [ok |-> TRUE, isNull |-> FALSE, members |-> <<>>]
       ELSE IF /\ n = 5
               /\ body[2] \in JsonStrings
               /\ body[3] = ":"
               /\ body[4] \in JsonStrings \cup {"null"}
       THEN [ok |-> TRUE, isNull |-> FALSE,
             members |-> [k \in {body[2]} |-> body[4]]]
       ELSE bad
  ELSE bad

Bodies ==
  { <<>>,
    <<"{", "}">>,
    <<"null">>,
    <<"{", "call_logsId">>,
    <<"{", "other", ":", "c1", "}">>,
    <<"{", "call_logsId", ":", "null", "}">>,
    <<"{", "call_logsId", ":", UnknownCall, "}">> }
  \cup { <<"{", "call_logsId", ":", c, "}">> : c \in CallIDs }

\* Node.js: an environment of the function
JsEnvs ==
  [GEMINI_API_KEY : BOOLEAN, DB_CONNECTION_STRING : BOOLEAN,
   dbVars : {DBVars, DBVars \ {"DB_PASSWORD"}}]

\* the events an entry point can be invoked with
DirectEvents ==
  [httpMethod : {""}, call_logsId : CallIDs \cup {UnknownCall, ""},
   body : {<<>>}]
HTTPEvents ==
  [httpMethod : {"GET", "POST", "OPTIONS", "PUT"}, call_logsId : {""},
   body : Bodies]

Handlers == {"LambdaHandler", "exports.handler", "HandleRequest",
             "debug.HandleRequest"}

\* a response of an entry point
Response(status, message, id, result, err) ==
  [statusCode |-> status, message |-> message, call_logsId |-> id,
   result |-> result, err |-> err]

Responded(run) == run.answer # NoRecord

\* an invocation whose event the entry point has accepted starts its run
StartEvent(run, c) ==
  [StartRun(c) EXCEPT !.handler = run.handler, !.event = run.event,
                      !.env = run.env, !.silent = run.silent]

\* Go: LambdaHandler up to the call of ProcessCall.  Missing environment
\* variables are replaced by defaults; the identifier is passed as it is.
GoLambdaHandler(r) ==
  /\ impl = "go"
  /\ runs[r].pc = "recv"
  /\ runs[r].handler = "LambdaHandler"
  /\ Put(r, StartEvent(runs[r], runs[r].event.call_logsId))
  /\ UNCHANGED <<callAnalysis, clock, impl>>
  /\ UNCHANGED <<responseText, questionIDs, lines, idx, locals, pc, ret, first>>

\* mutant: the result is returned whatever ProcessCall reported
GoLambdaResponseAlwaysOK(run) ==
  Response(StatusOK, "", "", run.result, NoErr)

\* Go: the response LambdaHandler builds from what ProcessCall returned
GoLambdaResponse(run) ==
  IF run.pc = "failed"
  THEN Response(500, "error", "", NoRecord, run.err)
  ELSE Response(StatusOK, "", "", run.result, NoErr)

\* Go: ProcessCall has returned and LambdaHandler returns its response
GoLambdaHandlerReturn(r) ==
  /\ impl = "go"
  /\ runs[r].handler = "LambdaHandler"
  /\ runs[r].pc \in {"done", "failed"}
  /\ ~Responded(runs[r])
  /\ Put(r, [runs[r] EXCEPT !.answer = GoLambdaResponse(runs[r])])
  /\ UNCHANGED <<callAnalysis, clock, impl>>
  /\ UNCHANGED <<responseText, questionIDs, lines, idx, locals, pc, ret, first>>

\* mutant: a body without the identifier is given a default identifier
JsCallLogsIdDefaulted(event) ==
  IF event.call_logsId # ""
  THEN [id |-> event.call_logsId, error |-> ""]
  ELSE IF event.body # <<>>
  THEN LET body == JsonParse(event.body) IN
       IF ~body.ok \/ body.isNull
       THEN [id |-> "c1", error |-> ""]
       ELSE IF "call_logsId" \in DOMAIN body.members
                 /\ body.members["call_logsId"] # "null"
       THEN [id |-> body.members["call_logsId"], error |-> ""]
       ELSE [id |-> "c1", error |-> ""]
  ELSE [id |-> "", error |-> "call_logsId is required"]

\* Node.js: the identifier the handler extracts from the event, or the
\* message of the error it throws.  Reading a property of the value null
\* throws inside the try block around JSON.parse.
JsCallLogsId(event) ==
  IF event.call_logsId # ""
  THEN [id |-> event.call_logsId, error |-> ""]
  ELSE IF event.body # <<>>
  THEN LET body == JsonParse(event.body) IN
       IF ~body.ok \/ body.isNull
       THEN [id |-> "", error |-> "Invalid JSON in request body"]
       ELSE IF "call_logsId" \in DOMAIN body.members
                 /\ body.members["call_logsId"] # "null"
       THEN [id |-> body.members["call_logsId"], error |-> ""]
       ELSE [id |-> "", error |-> "call_logsId is required"]
  ELSE [id |-> "", error |-> "call_logsId is required"]

\* mutant: the handler awaits processCall before it answers
JsHandlerAwaits(r) ==
  /\ impl = "js"
  /\ runs[r].pc = "recv"
  /\ runs[r].handler = "exports.handler"
  /\ LET run == runs[r]
         got == JsCallLogsId(run.event) IN
       Put(r, IF run.event.httpMethod \in {"OPTIONS", "GET"}
              THEN [run EXCEPT !.pc = "answered",
                      !.answer = Response(StatusOK, "info", "", NoRecord, NoErr)]
              ELSE IF got.error # ""
              THEN [run EXCEPT !.pc = "answered",
                      !.answer = Response(500, got.error, "", NoRecord, NoErr)]
              ELSE IF ~run.env.GEMINI_API_KEY
              THEN [run EXCEPT !.pc = "answered",
                      !.answer = Response(500,
                        "GEMINI_API_KEY environment variable is required",
                        "", NoRecord, NoErr)]
              ELSE StartEvent(run, got.id))
  /\ UNCHANGED <<callAnalysis, clock, impl>>
  /\ UNCHANGED <<responseText, questionIDs, lines, idx, locals, pc, ret, first>>

\* Node.js: exports.handler.  OPTIONS and GET are answered with 200; an
\* event without identifier and an unset GEMINI_API_KEY throw, which the
\* catch block answers with 500; otherwise processCall is scheduled with
\* process.nextTick and the handler returns 202 at once.
JsHandler(r) ==
  /\ impl = "js"
  /\ runs[r].pc = "recv"
  /\ runs[r].handler = "exports.handler"
  /\ LET run == runs[r]
         got == JsCallLogsId(run.event) IN
       Put(r, IF run.event.httpMethod \in {"OPTIONS", "GET"}
              THEN [run EXCEPT !.pc = "answered",
                      !.answer = Response(StatusOK, "info", "", NoRecord, NoErr)]
              ELSE IF got.error # ""
              THEN [run EXCEPT !.pc = "answered",
                      !.answer = Response(500, got.error, "", NoRecord, NoErr)]
              ELSE IF ~run.env.GEMINI_API_KEY
              THEN [run EXCEPT !.pc = "answered",
                      !.answer = Response(500,
                        "GEMINI_API_KEY environment variable is required",
                        "", NoRecord, NoErr)]
              ELSE [StartEvent(run, got.id) EXCEPT
                      !.answer = Response(202,
                        "Call processing started in background", got.id,
                        NoRecord, NoErr)])
  /\ UNCHANGED <<callAnalysis, clock, impl>>
  /\ UNCHANGED <<responseText, questionIDs, lines, idx, locals, pc, ret, first>>

\* Go, API Gateway Lambda: the response of HandleRequest.  The body is
\* decoded into a map; the literal null decodes to the nil map; a key
\* whose value is null exists.  The method is logged and not looked at.
HandleRequestResponse(request) ==
  LET req == JsonParse(request.body) IN
  IF ~req.ok
  THEN Response(400, "JSON parse failed", "", NoRecord, NoErr)
  ELSE IF "call_logsId" \notin DOMAIN req.members
  THEN Response(400, "call_logsId is required", "", NoRecord, NoErr)
  ELSE Response(StatusOK, "minimal_debug_success",
                req.members["call_logsId"], NoRecord, NoErr)

\* Go, API Gateway Lambda: HandleRequest
HandleRequest(r) ==
  /\ impl = "go"
  /\ runs[r].pc = "recv"
  /\ runs[r].handler = "HandleRequest"
  /\ Put(r, [runs[r] EXCEPT !.pc = "answered",
                            !.answer = HandleRequestResponse(runs[r].event)])
  /\ UNCHANGED <<callAnalysis, clock, impl>>
  /\ UNCHANGED <<responseText, questionIDs, lines, idx, locals, pc, ret, first>>

\* Go, debug_main.go: what the database tests of HandleRequest can meet
DebugOutcomes ==
  {"openFail", "pingFail", "queryFail", "lookupFail", "notFound", "found"}

\* Go, debug_main.go: the identifier decoded into Request.CallLogsID; a
\* missing key and the value null leave the field empty
DebugCallLogsID(req) ==
  IF "call_logsId" \in DOMAIN req.members
       /\ req.members["call_logsId"] # "null"
  THEN req.members["call_logsId"]
  ELSE ""

\* Go, debug_main.go: the response of HandleRequest.  An empty body and
\* the body {} are answered before anything is decoded.
DebugHandleRequestResponse(request, outcome) ==
  LET req == JsonParse(request.body) IN
  IF request.body = <<>> \/ request.body = <<"{", "}">>
  THEN Response(StatusOK, "debug mode", "", NoRecord, NoErr)
  ELSE IF ~req.ok
  THEN Response(400, "JSON parsing failed", "", NoRecord, NoErr)
  ELSE CASE outcome = "openFail" ->
              Response(500, "Database open failed", "", NoRecord, NoErr)
         [] outcome = "pingFail" ->
              Response(500, "Database ping failed", "", NoRecord, NoErr)
         [] outcome = "queryFail" ->
              Response(500, "Query failed", "", NoRecord, NoErr)
         [] outcome = "lookupFail" ->
              Response(500, "Call lookup failed", "", NoRecord, NoErr)
         [] outcome = "notFound" ->
              Response(404, "Call not found", "", NoRecord, NoErr)
         [] outcome = "found" ->
              Response(StatusOK, "debug_success", DebugCallLogsID(req),
                       NoRecord, NoErr)

\* Go, debug_main.go: HandleRequest; only an identifier that is a key of
\* the table can be found
DebugHandleRequest(r) ==
  /\ impl = "go"
  /\ runs[r].pc = "recv"
  /\ runs[r].handler = "debug.HandleRequest"
  /\ \E outcome \in DebugOutcomes :
       LET req == JsonParse(runs[r].event.body) IN
       /\ outcome = "found" => req.ok /\ DebugCallLogsID(req) \in CallIDs
       /\ Put(r, [runs[r] EXCEPT
                    !.pc = "answered",
                    !.answer = DebugHandleRequestResponse(runs[r].event,
                                                          outcome)])
  /\ UNCHANGED <<callAnalysis, clock, impl>>
  /\ UNCHANGED <<responseText, questionIDs, lines, idx, locals, pc, ret, first>>

\* the events a handler is invoked with: LambdaHandler is given the
\* decoded LambdaRequest, the API Gateway handlers an HTTP request
EventsOf(h) ==
  CASE h = "LambdaHandler" -> DirectEvents
    [] h = "exports.handler" -> DirectEvents \cup HTTPEvents
    [] OTHER -> HTTPEvents

\* one invocation of an entry point
InitHandler ==
  /\ impl \in Impls
  /\ responseText = <<>>
  /\ questionIDs = <<>>
  /\ lines = <<>>
  /\ idx = 0
  /\ locals = ZeroLocals
  /\ pc = "idle"
  /\ ret = NoResult
  /\ first = NoCall
  /\ callAnalysis = [c \in CallIDs |-> OldAnalysis]
  /\ clock = 1
  /\ \E h \in Handlers :
       /\ (impl = "js") = (h = "exports.handler")
       /\ \E e \in EventsOf(h), v \in JsEnvs :
            /\ impl = "go" => v = FullEnv
            /\ runs = [r \in RunIDs |->
                         IF r = "r1"
                         THEN [UnusedRun EXCEPT !.pc = "recv", !.handler = h,
                                                !.event = e, !.env = v]
                         ELSE UnusedRun]

NextHandler ==
  \/ Next
  \/ \E r \in RunIDs : GoLambdaHandler(r)
  \/ \E r \in RunIDs : GoLambdaHandlerReturn(r)
  \/ \E r \in RunIDs : JsHandler(r)
  \/ \E r \in RunIDs : HandleRequest(r)
  \/ \E r \in RunIDs : DebugHandleRequest(r)

SpecHandler == InitHandler /\ [][NextHandler]_vars

(***************************************************************************)
(* Two invocations at the same time, for different call identifiers.  Each *)
(* has the pipeline it created (NewTranscriptionPipeline, new               *)
(* TranscriptionPipeline); their steps interleave in every order.          *)
(***************************************************************************)
CallOf(r) == IF r = "r1" THEN "c1" ELSE "c2"

InitConcurrent ==
  /\ impl \in Impls
  /\ responseText = <<>>
  /\ questionIDs = <<>>
  /\ lines = <<>>
  /\ idx = 0
  /\ locals = ZeroLocals
  /\ pc = "idle"
  /\ ret = NoResult
  /\ first = NoCall
  /\ callAnalysis = [c \in CallIDs |-> OldAnalysis]
  /\ clock = 1
  /\ runs = [r \in RunIDs |-> StartRun(CallOf(r))]

SpecConcurrent == InitConcurrent /\ [][Next]_vars

\* two invocations under way for the same call
InitSameCall ==
  /\ impl \in Impls
  /\ responseText = <<>>
  /\ questionIDs = <<>>
  /\ lines = <<>>
  /\ idx = 0
  /\ locals = ZeroLocals
  /\ pc = "idle"
  /\ ret = NoResult
  /\ first = NoCall
  /\ callAnalysis = [c \in CallIDs |-> OldAnalysis]
  /\ clock = 1
  /\ runs = [r \in RunIDs |-> StartRun("c1")]

SpecSameCall == InitSameCall /\ [][Next]_vars

(***************************************************************************)
(* The prompt of the transcribe-and-answer mode: the first part of         *)
(* ProcessAudioWithGemini / processAudioWithGemini, up to the request.     *)
(* A question is the record the loader built; its texts are token          *)
(* sequences without a newline, and each default constraint is one token. *)
(***************************************************************************)
AnswerTypes == {"boolean", "integer", "description", "text"}
InstructionTexts == {<<>>, <<"i">>}

\* the text of each question of the table: two neighbours differ
QuestionTextOf(id) == IF id \in {"q1", "q3"} THEN <<"h">> ELSE <<"w">>

\* the question lists of the loader: identifiers in loader order
Questions(id) ==
  [ID : {id}, QuestionText : {QuestionTextOf(id)}, AnswerType : AnswerTypes,
   Instructions : InstructionTexts]
QuestionLists ==
  UNION { {qs \in [1..n -> UNION {Questions(id) : id \in {AllQuestionIDs[j] : j \in 1..Len(AllQuestionIDs)}}] :
             \A i \in 1..n : qs[i].ID = AllQuestionIDs[i]} :
          n \in 1..MaxQuestions }

\* fmt.Sprintf("%d", n) and `${n}`, for n >= 0
DigitChar(d) ==
  CASE d = 0 -> "0" [] d = 1 -> "1" [] d = 2 -> "2" [] d = 3 -> "3"
    [] d = 4 -> "4" [] d = 5 -> "5" [] d = 6 -> "6" [] d = 7 -> "7"
    [] d = 8 -> "8" [] d = 9 -> "9"

RECURSIVE Itoa(_)
Itoa(n) ==
  IF n < 10 THEN <<DigitChar(n)>>
  ELSE Itoa(n \div 10) \o <<DigitChar(n % 10)>>

RECURSIVE ConcatAll(_)
ConcatAll(ts) == IF ts = <<>> THEN <<>> ELSE Head(ts) \o ConcatAll(Tail(ts))

\* mutant: the questions are numbered from 0
GoQuestionLineFromZero(i, q) == Itoa(i) \o <<".", " ">> \o q.QuestionText \o <<NL>>

\* Go: fmt.Sprintf("%d. %s\n", i+1, q.QuestionText), i the 0-based index
GoQuestionLine(i, q) == Itoa(i + 1) \o <<".", " ">> \o q.QuestionText \o <<NL>>

\* the default constraint of an answer-type tag
DefaultConstraint(answerType) ==
  CASE answerType = "boolean" -> <<"Answer must be ONLY 'true' or 'false'">>
    [] answerType = "integer" ->
         <<"Answer must be ONLY a number (no units, no text)">>
    [] answerType = "description" -> <<"Answer must be a descriptive summary">>
    [] OTHER -> <<"Answer should be clear and concise">>

\* mutant: the instructions of the question are not looked at
GoConstraintIgnoresInstructions(i, q) ==
  <<"Question", " ">> \o Itoa(i + 1) \o <<":", " ">>
    \o DefaultConstraint(q.AnswerType)

\* Go: the entry appended to answerConstraints for the question at index i
GoConstraint(i, q) ==
  IF q.Instructions # <<>>
  THEN <<"Question", " ">> \o Itoa(i + 1) \o <<":", " ">> \o q.Instructions
  ELSE <<"Question", " ">> \o Itoa(i + 1) \o <<":", " ">>
         \o DefaultConstraint(q.AnswerType)

\* Go: the loop over the questions and strings.Join(answerConstraints, "\n")
GoPrompt(questions) ==
  LET n == Len(questions)
      constraints == [k \in 1..n |-> GoConstraint(k - 1, questions[k])] IN
  [built |-> TRUE,
   questionsText |->
     ConcatAll([k \in 1..n |-> GoQuestionLine(k - 1, questions[k])]),
   answerConstraints |-> constraints,
   constraintsText |-> JoinLines(constraints),
   questionIDs |-> [k \in 1..n |-> questions[k].ID]]

\* Node.js: the three maps over the questions and their join('\n')
JsPrompt(questions) ==
  LET n == Len(questions)
      constraints ==
        [k \in 1..n |->
           <<"Question", " ">> \o Itoa((k - 1) + 1) \o <<":", " ">>
             \o (IF questions[k].Instructions # <<>>
                 THEN questions[k].Instructions
                 ELSE DefaultConstraint(questions[k].AnswerType))] IN
  [built |-> TRUE,
   questionsText |->
     JoinLines([k \in 1..n |->
                  Itoa((k - 1) + 1) \o <<".", " ">>
                    \o questions[k].QuestionText]),
   answerConstraints |-> constraints,
   constraintsText |-> JoinLines(constraints),
   questionIDs |-> [k \in 1..n |-> questions[k].ID]]

\* both: the prompt is built from the questions of the run; the identifier
\* list goes to the parser
BuildPrompt(r) ==
  /\ runs[r].pc = "prompt"
  /\ LET run == runs[r]
         prompt == IF impl = "go" THEN GoPrompt(run.details)
                   ELSE JsPrompt(run.details) IN
       Put(r, [run EXCEPT !.prompt = prompt,
                          !.questions = prompt.questionIDs,
                          !.pc = "ai"])
  /\ UNCHANGED <<callAnalysis, clock, impl>>
  /\ UNCHANGED <<responseText, questionIDs, lines, idx, locals, pc, ret, first>>

\* an invocation that has loaded its call, a non-empty question list and
\* the audio, and is about to build the prompt
LoadedRun(c, questions) ==
  [StartRun(c) EXCEPT
     !.pc = "prompt", !.db = "open", !.tpdb = TRUE,
     !.callData = [RecordingURL |-> "u", CampaignID |-> "k"],
     !.details = questions,
     !.questions = [k \in 1..Len(questions) |-> questions[k].ID],
     !.qState = "ok", !.aState = "ok", !.audioContent = 1, !.fetched = 1,
     !.issued = <<"connect", "getCall", "getQuestions", "download">>]

InitPrompt ==
  /\ impl \in Impls
  /\ responseText = <<>>
  /\ questionIDs = <<>>
  /\ lines = <<>>
  /\ idx = 0
  /\ locals = ZeroLocals
  /\ pc = "idle"
  /\ ret = NoResult
  /\ first = NoCall
  /\ callAnalysis = [c \in CallIDs |-> OldAnalysis]
  /\ clock = 1
  /\ \E questions \in QuestionLists :
       runs = [r \in RunIDs |->
                 IF r = "r1" THEN LoadedRun("c1", questions) ELSE UnusedRun]

NextPrompt ==
  \/ \E r \in RunIDs : BuildPrompt(r)
  \/ \E r \in RunIDs : GoGemini(r)
  \/ \E r \in RunIDs : JsGemini(r)
  \/ \E r \in RunIDs : Save(r)
  \/ \E r \in RunIDs : Return(r)
  \/ Tick

SpecPrompt == InitPrompt /\ [][NextPrompt]_vars

(***************************************************************************)
(* Vocabulary of the properties: what a reply's lines are, read off the    *)
(* text itself.                                                            *)
(***************************************************************************)
Range(f) == {f[i] : i \in DOMAIN f}

IsTranscriptionMarker(l) == HasPrefix(TrimSpace(l), TranscriptionMarker)
IsAnswersMarker(l) == HasPrefix(TrimSpace(l), AnswersMarker)
IsMarker(l) == IsTranscriptionMarker(l) \/ IsAnswersMarker(l)
IsBlank(l) == TrimSpace(l) = <<>>

\* the last marker line before line j, 0 when there is none
LastMarkerBefore(ls, j) ==
  LET S == {k \in 1..(j - 1) : IsMarker(ls[k])} IN
  IF S = {} THEN 0 ELSE CHOOSE k \in S : \A m \in S : m <= k

\* the capture mode in which line j is processed
AnswerModeAt(ls, j) ==
  LET m == LastMarkerBefore(ls, j) IN m > 0 /\ IsAnswersMarker(ls[m])
TranscriptionModeAt(ls, j) ==
  LET m == LastMarkerBefore(ls, j) IN m > 0 /\ IsTranscriptionMarker(ls[m])

\* a line 'Answer <index>: <text>'
HasAnswerShape(l) ==
  LET t == TrimSpace(l) IN HasPrefix(t, AnswerPrefix) /\ IndexOf(t, ":") > 0
IndexField(l) ==
  LET t == TrimSpace(l) IN TrimSpace(SubSeq(t, 2, IndexOf(t, ":") - 1))
TrailingText(l) ==
  LET t == TrimSpace(l) IN TrimSpace(SubSeq(t, IndexOf(t, ":") + 1, Len(t)))

\* the integer an index field denotes: a decimal numeral, optionally signed.
\* The Go program reads the whole field as the numeral; the Node.js program
\* reads the field's leading numeral and ignores what follows it.
Unsigned(f) == IF f # <<>> /\ f[1] \in {"+", "-"} THEN Tail(f) ELSE f
NumeralOf(im, f) ==
  IF im = "go" THEN Unsigned(f) ELSE DigitPrefix(Unsigned(f))
IsAnswerLine(im, l) ==
  /\ ~IsMarker(l)
  /\ HasAnswerShape(l)
  /\ LET d == NumeralOf(im, IndexField(l)) IN
       d # <<>> /\ \A i \in 1..Len(d) : d[i] \in Digits
AnswerNumber(im, l) ==
  LET f == IndexField(l)
      v == DecVal(NumeralOf(im, f))
  IN IF f[1] = "-" THEN 0 - v ELSE v

\* the texts of a list that are not empty, joined by newlines
RECURSIVE JoinNonEmpty(_)
JoinNonEmpty(ts) ==
  IF ts = <<>> THEN <<>>
  ELSE LET rest == JoinNonEmpty(Tail(ts)) IN
       IF Head(ts) = <<>> THEN rest
       ELSE IF rest = <<>> THEN Head(ts)
       ELSE Head(ts) \o <<NL>> \o rest

\* the text after the marker on a TRANSCRIPTION: line
SeedText(l) ==
  LET t == TrimSpace(l) IN
  TrimSpace(SubSeq(t, Len(TranscriptionMarker) + 1, Len(t)))

\* the transcription section that starts at marker line t and ends before
\* line e: the seed and the lines between, trimmed
SectionText(ls, t, e) ==
  JoinNonEmpty(<<SeedText(ls[t])>>
               \o [j \in 1..(e - t - 1) |-> TrimSpace(ls[t + j])])

(***************************************************************************)
(* C1.  A well-formed reply: one TRANSCRIPTION: line, later one ANSWERS:   *)
(* line, and after that only blank lines and lines 'Answer k: text' with   *)
(* k a plain integer, 1 <= k <= len(questionIDs), no k twice.              *)
(***************************************************************************)
WellFormedAt(ls, ids, t, a) ==
  /\ t < a
  /\ \A j \in 1..Len(ls) : IsTranscriptionMarker(ls[j]) <=> j = t
  /\ \A j \in 1..Len(ls) : IsAnswersMarker(ls[j]) <=> j = a
  /\ \A j \in (a + 1)..Len(ls) :
       \/ IsBlank(ls[j])
       \/ /\ IsAnswerLine("go", ls[j])
          /\ AnswerNumber("go", ls[j]) \in 1..Len(ids)
  /\ \A j, k \in (a + 1)..Len(ls) :
       (j # k /\ ~IsBlank(ls[j]) /\ ~IsBlank(ls[k]))
          => AnswerNumber("go", ls[j]) # AnswerNumber("go", ls[k])

AnswerLinesAfter(ls, a) == {j \in (a + 1)..Len(ls) : ~IsBlank(ls[j])}

ExpectedAnswers(ls, ids, a) ==
  [id \in {ids[AnswerNumber("go", ls[j])] : j \in AnswerLinesAfter(ls, a)} |->
     TrailingText(ls[CHOOSE j \in AnswerLinesAfter(ls, a) :
                              ids[AnswerNumber("go", ls[j])] = id])]

\* C1: a well-formed reply with N answer lines parses to the transcription
\* section joined by newlines and to exactly the N keys questionIDs[k-1],
\* each mapped to its line's trimmed trailing text
C1_WellFormedReplyParsed ==
  pc = "done" =>
    \A t, a \in 1..Len(lines) :
      WellFormedAt(lines, questionIDs, t, a) =>
        /\ ret.transcription = SectionText(lines, t, a)
        /\ ret.answers = ExpectedAnswers(lines, questionIDs, a)
        /\ Cardinality(DOMAIN ret.answers)
             = Cardinality(AnswerLinesAfter(lines, a))

\* the spec's scenario: ids [q1, q2], TRANSCRIPTION: / h / ANSWERS: /
\* Answer 1: h / Answer 2: w
C1_Witness ==
  /\ pc = "done"
  /\ questionIDs = <<"q1", "q2">>
  /\ lines = << <<"TRANSCRIPTION", ":">>, <<" ", "h", " ">>,
                <<"ANSWERS", ":">>,
                <<"Answer", " ", "1", ":", " ", "h">>,
                <<"Answer", " ", "2", ":", " ", "w">> >>
  /\ WellFormedAt(lines, questionIDs, 1, 3)
  /\ ret.transcription = <<"h">>
  /\ ret.answers = [id \in {"q1", "q2"} |->
                      IF id = "q1" THEN <<"h">> ELSE <<"w">>]

(***************************************************************************)
(* C2.                                                                     *)
(***************************************************************************)
\* line j, processed in answer-capture mode, is 'Answer n: v' with n in
\* range, the identifier at position n is id, and v is its trailing text
Justifies(j, id, v) ==
  /\ AnswerModeAt(lines, j)
  /\ IsAnswerLine(impl, lines[j])
  /\ AnswerNumber(impl, lines[j]) \in 1..Len(questionIDs)
  /\ questionIDs[AnswerNumber(impl, lines[j])] = id
  /\ v = TrailingText(lines[j])

OutOfRangeLine(j) ==
  /\ AnswerModeAt(lines, j)
  /\ IsAnswerLine(impl, lines[j])
  /\ AnswerNumber(impl, lines[j]) \notin 1..Len(questionIDs)

\* C3: processing an out-of-range answer line adds no entry, leaves the
\* entries of the other lines as they are, and the parse goes on normally
C3_OutOfRangeDropped ==
  [][(pc = "loop" /\ idx <= Len(lines) /\ OutOfRangeLine(idx))
       => (locals'.answers = locals.answers /\ pc' = "loop")]_vars

\* 'Answer 99: w' after an accepted 'Answer 1: ...', parse completed
C3_Witness ==
  /\ pc = "done"
  /\ \E j \in 1..Len(lines) :
       OutOfRangeLine(j) /\ AnswerNumber(impl, lines[j]) = 99
  /\ DOMAIN ret.answers = {"q1"}

(***************************************************************************)
(* C4.                                                                     *)
(***************************************************************************)
\* the answer-mode lines 'Answer k: ...' of the reply
LinesWithIndex(k) ==
  {j \in 1..Len(lines) :
     /\ AnswerModeAt(lines, j)
     /\ IsAnswerLine(impl, lines[j])
     /\ AnswerNumber(impl, lines[j]) = k}
Repeated(k) == Cardinality(LinesWithIndex(k)) >= 2
LastLineWithIndex(k) ==
  CHOOSE j \in LinesWithIndex(k) : \A m \in LinesWithIndex(k) : m <= j

NoAnswersMarker == \A j \in 1..Len(lines) : ~IsAnswersMarker(lines[j])
NoTranscriptionMarker ==
  \A j \in 1..Len(lines) : ~IsTranscriptionMarker(lines[j])

\* the text captured by a reply without ANSWERS: line: what follows its
\* last TRANSCRIPTION: line
CapturedToEnd(ls) ==
  LET t == LastMarkerBefore(ls, Len(ls) + 1) IN
  IF t = 0 THEN <<>> ELSE SectionText(ls, t, Len(ls) + 1)

\* C5: a reply without ANSWERS: line gives an empty AnswerSet, whatever
\* 'Answer n:' lines it has, and the transcription text that was captured
C5_NoAnswersMarkerNoAnswers ==
  (pc = "done" /\ NoAnswersMarker) =>
     /\ DOMAIN ret.answers = {}
     /\ ret.transcription = CapturedToEnd(lines)

C5_Witness ==
  /\ pc = "done"
  /\ NoAnswersMarker
  /\ \E j \in 1..Len(lines) :
       /\ IsAnswerLine(impl, lines[j])
       /\ AnswerNumber(impl, lines[j]) \in 1..Len(questionIDs)
  /\ ret.transcription # <<>>
  /\ DOMAIN ret.answers = {}

(***************************************************************************)
(* C6.                                                                     *)
(***************************************************************************)
\* C6: a reply without TRANSCRIPTION: line gives the empty transcription,
\* at every point of the parse and in the result
C6_NoTranscriptionMarkerEmpty ==
  NoTranscriptionMarker =>
     /\ pc \in {"loop", "done"} => locals.transcription = <<>>
     /\ pc = "done" => ret.transcription = <<>>

C6_Witness ==
  /\ pc = "done"
  /\ NoTranscriptionMarker
  /\ \E j \in 1..Len(lines) : IsAnswersMarker(lines[j])
  /\ \E j \in 1..Len(lines) : ~IsMarker(lines[j]) /\ ~IsBlank(lines[j])
                                /\ ~HasAnswerShape(lines[j])
  /\ DOMAIN ret.answers # {}
  /\ ret.transcription = <<>>

(***************************************************************************)
(* C7.                                                                     *)
(***************************************************************************)
TextTokens ==
  WhiteSpace \cup Digits \cup {"TRANSCRIPTION", "ANSWERS", "Answer", ":", "h", "w"}
IsText(t) == \A i \in 1..Len(t) : t[i] \in TextTokens

IsLocals(st) ==
  /\ IsText(st.transcription)
  /\ DOMAIN st.answers \subseteq Range(questionIDs)
  /\ \A id \in DOMAIN st.answers : IsText(st.answers[id])
  /\ ~(st.inTranscription /\ st.inAnswers)

\* at every point: no panic; in the loop the position is within the lines
\* and, while lines are left, the iteration on the next line is defined and
\* does not panic; the return gives a (transcription, AnswerSet) pair
C7_NoFailure ==
  /\ pc \in {"idle", "loop", "done"}
  /\ pc = "loop" =>
       /\ idx \in 1..(Len(lines) + 1)
       /\ idx <= Len(lines) =>
            LET n == ParseLine(impl, locals, lines[idx], questionIDs) IN
            ~n.panicked /\ IsLocals(n)
  /\ pc = "done" =>
       /\ idx = Len(lines) + 1
       /\ IsLocals(locals)
       /\ ret = ParseResult(locals)

\* every step of the loop is one line forward, or the return after the last
C7_ForwardPass ==
  pc = "loop" =>
    \/ idx <= Len(lines) /\ idx' = idx + 1 /\ pc' = "loop" /\ lines' = lines
    \/ idx = Len(lines) + 1 /\ pc' = "done"

\* C7: the parser never fails: for every reply and identifier list (empty
\* ones too) the single forward pass over the lines cannot panic or stall,
\* ends after the last line and returns a (transcription, AnswerSet) pair
C7_ParserNeverFails == []C7_NoFailure /\ [][C7_ForwardPass]_vars

\* no identifiers, ANSWERS: before TRANSCRIPTION:, a malformed Answer line
C7_Witness ==
  /\ pc = "done"
  /\ questionIDs = <<>>
  /\ Len(lines) = 3
  /\ IsAnswersMarker(lines[1])
  /\ HasAnswerShape(lines[2]) /\ ~IsAnswerLine("go", lines[2])
  /\ IsTranscriptionMarker(lines[3])
  /\ ret = [transcription |-> <<>>, answers |-> NoAnswers]

(***************************************************************************)
(* C8.                                                                     *)
(***************************************************************************)
\* C8: a call with the arguments of the first call returns what the first
\* call returned, whatever was parsed in between
C8_ReparseIdempotent ==
  (pc = "done" /\ first.set /\ responseText = first.text
     /\ questionIDs = first.ids)
    => ret = first.ret

\* the first call's arguments parsed again after a call with others
C8_Witness ==
  /\ pc = "done"
  /\ first.set
  /\ first.others
  /\ responseText = first.text
  /\ questionIDs = first.ids
  /\ DOMAIN ret.answers # {}
  /\ ret = first.ret

(***************************************************************************)
(* C9, C10: the pipeline                                                   *)
(***************************************************************************)
\* the states of the pipeline in which an operation is issued:
\* LoadingCall, LoadingQuestionsAndAudio, Transcribing, Persisting
Stage(op) ==
  CASE op = "connect" -> 0
    [] op \in {"getCall", "checkCall"} -> 1
    [] op \in {"getQuestions", "download", "checkAudio"} -> 2
    [] op = "ai" -> 3
    [] op = "save" -> 4

\* the call load, the question load, the audio fetch and the AI request,
\* with the checks of what they delivered
LoadSteps ==
  {"getCall", "checkCall", "getQuestions", "download", "checkAudio", "ai"}

\* the operation a step stands for
OpOf(step) ==
  CASE step = "checkCall" -> "getCall"
    [] step = "checkAudio" -> "download"
    [] OTHER -> step

StepFailed(run) == run.err.step \in LoadSteps

C9_Aborted ==
  \A r \in RunIDs :
    LET run == runs[r] IN
    StepFailed(run) =>
      /\ run.pc = "failed"
      /\ run.err.cause # "none"
      /\ \E i \in DOMAIN run.issued : run.issued[i] = OpOf(run.err.step)
      /\ \A i \in DOMAIN run.issued :
           Stage(run.issued[i]) <= Stage(run.err.step)
      /\ run.saved = NoRecord
      /\ run.result = NoRecord
      /\ callAnalysis[run.callLogsID] = run.before

C9_NothingAfter ==
  \A r \in RunIDs :
    StepFailed(runs[r]) =>
      /\ runs'[r].pc = "failed"
      /\ runs'[r].err = runs[r].err
      /\ runs'[r].issued = runs[r].issued
      /\ callAnalysis' = callAnalysis

\* C9: when the call load, the question load, the audio fetch or the AI
\* request of a run fails, the run is Failed with the error of that very
\* step, it has issued no operation of a later state of the pipeline and
\* issues none afterwards, nothing was persisted and no result was built,
\* and the stored analysis of its call is what it was before the run.
C9_StepFailureAborts == []C9_Aborted /\ [][C9_NothingAfter]_vars

C9_Witness ==
  \E r \in RunIDs :
    /\ runs[r].pc = "failed"
    /\ runs[r].err.step = "ai"
    /\ Len(runs[r].questions) > 0
    /\ runs[r].before = OldAnalysis
    /\ callAnalysis[runs[r].callLogsID] = OldAnalysis

C10_DoneAfterPersist ==
  \A r \in RunIDs :
    LET run == runs[r] IN
    /\ run.result # NoRecord =>
         /\ run.pc = "done"
         /\ run.issued[Len(run.issued)] = "save"
         /\ run.saved # NoRecord
         /\ run.err = NoErr
         /\ callAnalysis[run.callLogsID] = run.saved
    /\ run.pc = "done" => run.result # NoRecord
    /\ run.err.step = "save" =>
         /\ run.pc = "failed"
         /\ run.result = NoRecord
         /\ run.saved = NoRecord
         /\ callAnalysis[run.callLogsID] = run.before

C10_FailedPersistIsFinal ==
  \A r \in RunIDs :
    runs[r].err.step = "save" => runs'[r] = runs[r]

\* C10: a run holds a result record only when it is Done, the last
\* operation it issued is the writer and the writer reported success (what
\* it wrote is what the store holds); a run that is Done holds a result
\* record; a run whose writer failed is Failed, holds no result record
\* and never gets one, and the store is as it was before the run.
C10_DoneOnlyAfterPersist ==
  []C10_DoneAfterPersist /\ [][C10_FailedPersistIsFinal]_vars

C10_Witness ==
  \E r \in RunIDs :
    /\ runs[r].pc = "done"
    /\ runs[r].result # NoRecord
    /\ DOMAIN runs[r].result.answers # {}
    /\ runs[r].before = OldAnalysis
    /\ callAnalysis[runs[r].callLogsID] = runs[r].saved

(***************************************************************************)
(* C11: a call record without its prerequisites                            *)
(***************************************************************************)
\* the record the run loaded lacks the audio URL or the campaign
MissingPrerequisite(run) ==
  /\ run.callData # NoCallData
  /\ run.callData.RecordingURL = "" \/ run.callData.CampaignID = ""

MissingPrerequisiteCauses ==
  {"noRecordingURL", "noCampaignID", "missingURLOrCampaign"}

\* C11: a run that loaded a call record with an empty audio URL or an
\* empty campaign identifier is Failed with a missing-prerequisite error,
\* and the connection and the load of the call record are all it issued:
\* no question load, no audio download, no AI request, no persist.
C11_MissingPrerequisiteStops ==
  \A r \in RunIDs :
    LET run == runs[r] IN
    MissingPrerequisite(run) =>
      /\ run.pc = "failed"
      /\ run.err.step = "checkCall"
      /\ run.err.cause \in MissingPrerequisiteCauses
      /\ run.issued = <<"connect", "getCall">>
      /\ run.qState = "idle"
      /\ run.aState = "idle"
      /\ run.saved = NoRecord
      /\ run.result = NoRecord

\* a record with an audio URL and no campaign
C11_Witness ==
  \E r \in RunIDs :
    /\ runs[r].callData = [RecordingURL |-> "u", CampaignID |-> ""]
    /\ runs[r].pc = "failed"
    /\ runs[r].err.step = "checkCall"

(***************************************************************************)
(* C12: a campaign without questions                                       *)
(***************************************************************************)
\* the run loaded an empty question list and the AI client returned a text
TranscribedOnly(run) ==
  run.qState = "ok" /\ Len(run.questions) = 0 /\ run.reply # <<>>

\* the reply holds 'Answer n:' lines after an ANSWERS: marker
HasAnswersSection(text) ==
  \E i, j \in DOMAIN text : i < j /\ text[i] = "ANSWERS" /\ text[j] = "Answer"

\* C12: when the question list of the campaign is empty the run is in
\* transcribe-only mode, whatever the AI reply holds: the reply is taken
\* whole as the transcription, and the AnswerSet of the run, of the record
\* it persists and of the result it returns is empty.
C12_NoQuestionsNoAnswers ==
  \A r \in RunIDs :
    LET run == runs[r] IN
    TranscribedOnly(run) =>
      /\ run.transcription = run.reply
      /\ run.answers = NoAnswers
      /\ run.saved # NoRecord =>
           /\ run.saved.answers = NoAnswers
           /\ callAnalysis[run.callLogsID].answers = NoAnswers
      /\ run.result # NoRecord => run.result.answers = NoAnswers

\* no questions, and a reply with an ANSWERS: section
C12_Witness ==
  \E r \in RunIDs :
    /\ TranscribedOnly(runs[r])
    /\ HasAnswersSection(runs[r].reply)
    /\ runs[r].pc = "done"
    /\ runs[r].saved.answers = NoAnswers
    /\ runs[r].result.answers = NoAnswers

(***************************************************************************)
(* C13: what is returned and what is persisted                             *)
(***************************************************************************)
\* C13: the result record a run returns has the transcription, the
\* AnswerSet and the processing timestamp of the record its writer stored.
C13_ResultIsPersisted ==
  \A r \in RunIDs :
    LET run == runs[r] IN
    run.result # NoRecord =>
      /\ run.saved # NoRecord
      /\ run.result.transcription = run.saved.transcription
      /\ run.result.answers = run.saved.answers
      /\ run.result.processed_at = run.saved.processed_at

\* a Done run whose result and stored record agree on the transcription
\* and the AnswerSet and carry two different timestamps
C13_Witness ==
  \E r \in RunIDs :
    /\ runs[r].pc = "done"
    /\ runs[r].result.transcription = runs[r].saved.transcription
    /\ runs[r].result.answers = runs[r].saved.answers
    /\ runs[r].result.processed_at # runs[r].saved.processed_at
    /\ callAnalysis[runs[r].callLogsID] = runs[r].saved

(***************************************************************************)
(* C14: the database handle                                                *)
(***************************************************************************)
Returned(run) == run.pc \in {"done", "failed"}

\* C14: when an invocation has returned, Done or Failed at whichever
\* step, no database handle it opened is still open.
C14_HandleReleased ==
  \A r \in RunIDs : Returned(runs[r]) => runs[r].db # "open"

\* an invocation that returned after the connectivity check failed, its
\* handle open
C14_Witness ==
  \E r \in RunIDs :
    /\ Returned(runs[r])
    /\ runs[r].err = [step |-> "connect", cause |-> "pingFail"]
    /\ runs[r].db = "open"
    /\ runs[r].issued = <<"connect">>

(***************************************************************************)
(* C15: termination                                                        *)
(***************************************************************************)
\* C15: every invocation eventually ends Done or Failed, whichever of its
\* endpoints never answer: every operation is bounded by a timeout whose
\* expiry fails the run.
C15_EveryRunTerminates ==
  <>(\A r \in RunIDs : runs[r].pc \in {"unused", "done", "failed"})

\* a Go invocation blocked for ever in the download of the audio
C15_Witness ==
  \E r \in RunIDs :
    /\ impl = "go"
    /\ runs[r].pc = "blocked"
    /\ runs[r].issued[Len(runs[r].issued)] = "download"
    /\ runs[r].silent = {"audio"}

(***************************************************************************)
(* C16: an empty audio body                                                *)
(***************************************************************************)
\* C16: when the audio fetch delivered zero bytes the run is Failed: it
\* issued no AI request and no persist, stored nothing and returned no
\* result, and the error is the empty audio unless the question load,
\* started together with the fetch, had already failed the run.
C16_EmptyAudioRejected ==
  \A r \in RunIDs :
    LET run == runs[r] IN
    run.fetched = 0 =>
      /\ run.pc = "failed"
      /\ \/ run.err.cause = "emptyAudio"
         \/ impl = "js" /\ run.err.step = "getQuestions"
      /\ \A i \in DOMAIN run.issued : run.issued[i] \notin {"ai", "save"}
      /\ run.saved = NoRecord
      /\ run.result = NoRecord
      /\ callAnalysis[run.callLogsID] = run.before

\* an empty body for a call with questions and a stored analysis
C16_Witness ==
  \E r \in RunIDs :
    /\ runs[r].fetched = 0
    /\ runs[r].err.cause = "emptyAudio"
    /\ runs[r].qState = "ok"
    /\ Len(runs[r].questions) > 0
    /\ runs[r].before = OldAnalysis

(***************************************************************************)
(* C17: the failures of the Go AI client                                   *)
(***************************************************************************)
\* the five conditions, read off what the endpoint answered
TransportFailure(resp) == ~resp.sent
NonSuccessStatus(resp) == resp.sent /\ resp.status # StatusOK
Decoded(resp) == resp.sent /\ resp.status = StatusOK /\ resp.json
ZeroCandidates(resp) == Decoded(resp) /\ Len(resp.candidates) = 0
ZeroParts(resp) ==
  Decoded(resp) /\ Len(resp.candidates) > 0 /\ Len(resp.candidates[1]) = 0
EmptyText(resp) ==
  /\ Decoded(resp) /\ Len(resp.candidates) > 0
  /\ Len(resp.candidates[1]) > 0
  /\ resp.candidates[1][1] = <<>>

\* which of the five a response shows: 0 for none of them
FailureKind(resp) ==
  CASE TransportFailure(resp) -> 1
    [] NonSuccessStatus(resp) -> 2
    [] ZeroCandidates(resp) -> 3
    [] ZeroParts(resp) -> 4
    [] EmptyText(resp) -> 5
    [] OTHER -> 0

\* the reason is that of no response showing another of the five
ReasonOfItsOwn(mode, resp, reason) ==
  \A other \in GoAIResponses :
    (FailureKind(other) # 0 /\ FailureKind(other) # FailureKind(resp)) =>
      GoAIClient(mode, other).err # reason

\* C17: in both Go AI clients a transport failure, a non-success status, a
\* reply with zero candidates, a first candidate with zero parts and an
\* empty text are errors with five different reasons; a run whose AI
\* request met one of them is Failed with that reason, holds no
\* transcription (not even an empty one it would go on with), persisted
\* nothing, and the stored analysis is as before the run.
C17_GoAIFailuresDistinct ==
  \A r \in RunIDs :
    LET run == runs[r] IN
    (run.response # NoRecord /\ FailureKind(run.response) # 0) =>
      /\ run.pc = "failed"
      /\ run.err.step = "ai"
      /\ run.err.cause # "none"
      /\ ReasonOfItsOwn(GoAIMode(run), run.response, run.err.cause)
      /\ run.reply = <<>>
      /\ run.transcription = <<>>
      /\ run.saved = NoRecord
      /\ run.result = NoRecord
      /\ callAnalysis[run.callLogsID] = run.before

\* a reply whose first candidate has no parts, in transcribe-only mode
C17_Witness ==
  \E r \in RunIDs :
    /\ runs[r].response # NoRecord
    /\ ZeroParts(runs[r].response)
    /\ Len(runs[r].questions) = 0
    /\ runs[r].pc = "failed"
    /\ runs[r].err.cause = "no content parts in Gemini response"
    /\ runs[r].before = OldAnalysis

(***************************************************************************)
(* C18: replies the parser recovers little from                            *)
(***************************************************************************)
\* transcribe-and-answer mode, a non-empty reply
Answered(run) == Len(run.questions) > 0 /\ run.reply # <<>>

\* what the parser recovers from the reply of the run
Recovered(run) ==
  parseTranscriptionAndAnswers(impl, run.reply, run.questions)

\* the parser recovers an empty transcription or an empty AnswerSet
Degraded(run) ==
  /\ Answered(run)
  /\ \/ Recovered(run).transcription = <<>>
     \/ Recovered(run).answers = NoAnswers

C18_NotFailed ==
  \A r \in RunIDs :
    LET run == runs[r] IN
    Degraded(run) =>
      /\ run.transcription = Recovered(run).transcription
      /\ run.answers = Recovered(run).answers
      /\ run.pc \in {"save", "return", "done", "failed", "blocked"}
      /\ run.pc \in {"failed", "blocked"} =>
           run.issued[Len(run.issued)] = "save"
      /\ run.saved # NoRecord =>
           /\ run.saved.transcription = run.transcription
           /\ run.saved.answers = run.answers
      /\ run.pc = "done" => run.saved # NoRecord

C18_ReachesDone ==
  \A r \in RunIDs :
    Degraded(runs[r]) ~>
      \/ runs[r].pc = "done"
      \/ runs[r].pc \in {"failed", "blocked"}
           /\ runs[r].issued[Len(runs[r].issued)] = "save"

\* C18: in transcribe-and-answer mode a non-empty reply from which the
\* parser recovers an empty transcription or an empty AnswerSet does not
\* fail the run: the run holds the recovered values and goes on to the
\* writer, which persists exactly them, and it reaches Done unless the
\* writer itself fails or never returns.
C18_MalformedReplyDegrades == []C18_NotFailed /\ C18_ReachesDone

\* a reply without markers: nothing recovered, persisted and Done
C18_Witness ==
  \E r \in RunIDs :
    /\ Degraded(runs[r])
    /\ runs[r].pc = "done"
    /\ runs[r].saved.transcription = <<>>
    /\ runs[r].saved.answers = NoAnswers
    /\ callAnalysis[runs[r].callLogsID] = runs[r].saved

(***************************************************************************)
(* C19: the writer replaces                                                *)
(***************************************************************************)
\* the writer of the run reported success
Persisted(run) == run.saved # NoRecord

\* C19: after the writer of a run for call c succeeded, the stored
\* analysis of c is the run's transcription, the run's AnswerSet and the
\* timestamp of the write and nothing else: its answer keys are the run's,
\* whatever analysis of c was stored before.
C19_WriterOverwrites ==
  \A r \in RunIDs :
    LET run == runs[r]
        stored == callAnalysis[run.callLogsID] IN
    Persisted(run) =>
      /\ stored = [transcription |-> run.transcription,
                   answers |-> run.answers,
                   processed_at |-> run.saved.processed_at]
      /\ DOMAIN stored.answers = DOMAIN run.answers
      /\ run.before # Null =>
           \A k \in DOMAIN run.before.answers \ DOMAIN run.answers :
             k \notin DOMAIN stored.answers

\* a successful run for a call that had an analysis with other keys
C19_Witness ==
  \E r \in RunIDs :
    /\ runs[r].pc = "done"
    /\ Persisted(runs[r])
    /\ runs[r].before = OldAnalysis
    /\ DOMAIN runs[r].answers = {"q1"}
    /\ DOMAIN callAnalysis[runs[r].callLogsID].answers = {"q1"}
    /\ callAnalysis[runs[r].callLogsID].transcription = runs[r].transcription

(***************************************************************************)
(* C20: one request per operation                                          *)
(***************************************************************************)
ExternalOps == {"connect", "getCall", "getQuestions", "download", "ai", "save"}

\* how often the run issued the operation
TimesIssued(run, op) ==
  Cardinality({i \in DOMAIN run.issued : run.issued[i] = op})

\* C20: an invocation issues each external operation (connection, call
\* load, question load, audio fetch, AI request, persist) at most once,
\* whatever fails or times out; a Done run issued each of them exactly
\* once, and its single AI reply is the source of both its transcription
\* and its AnswerSet.
C20_NoRetryOneAIRequest ==
  \A r \in RunIDs :
    LET run == runs[r] IN
    /\ \A op \in ExternalOps : TimesIssued(run, op) <= 1
    /\ run.pc = "done" =>
         /\ \A op \in ExternalOps : TimesIssued(run, op) = 1
         /\ run.reply # <<>>
         /\ IF Len(run.questions) = 0
            THEN run.transcription = run.reply /\ run.answers = NoAnswers
            ELSE /\ run.transcription = Recovered(run).transcription
                 /\ run.answers = Recovered(run).answers

\* a Done run with a transcription and answers, from one AI request
C20_Witness ==
  \E r \in RunIDs :
    /\ runs[r].pc = "done"
    /\ TimesIssued(runs[r], "ai") = 1
    /\ Len(runs[r].issued) = 6
    /\ runs[r].transcription # <<>>
    /\ DOMAIN runs[r].answers = {"q1", "q2"}

(***************************************************************************)
(* C21: what the entry points answer                                       *)
(***************************************************************************)
PipelineHandlers == {"LambdaHandler", "exports.handler"}

\* the invocation was given a call identifier and its pipeline run ended
RunEnded(run) ==
  /\ run.handler \in PipelineHandlers
  /\ run.pc \in {"done", "failed"}

\* the response carries the result record of the run
AnswersResult(run) ==
  /\ run.answer.statusCode = StatusOK
  /\ run.answer.result = run.result
  /\ run.result = [call_logsId |-> run.callLogsID,
                   campaignId |-> run.callData.CampaignID,
                   transcription |-> run.transcription,
                   answers |-> run.answers,
                   processed_at |-> run.result.processed_at]

\* the response is the error descriptor of the run
AnswersError(run) ==
  /\ run.answer.statusCode = 500
  /\ run.answer.err = run.err
  /\ run.answer.err # NoErr
  /\ run.answer.result = NoRecord

\* the response is the acceptance of the identifier, nothing of the run
AnswersAccepted(run) ==
  run.answer = Response(202, "Call processing started in background",
                        run.callLogsID, NoRecord, NoErr)

\* C21 as stated: the response of LambdaHandler and of the Node.js handler
\* to an invocation whose pipeline run ended is the result record when the
\* run is Done and the error descriptor with status 500 when it Failed.
C21_EntryPointsAnswerTheRun ==
  \A r \in RunIDs :
    LET run == runs[r] IN
    RunEnded(run) /\ Responded(run) =>
      IF run.pc = "done" THEN AnswersResult(run) ELSE AnswersError(run)

\* C21 amended: LambdaHandler answers only when its pipeline run has ended,
\* with status 200 and the result record {call id, campaign id,
\* transcription, answers, processed-at} when the run is Done and with
\* status 500 and the error when it Failed; the Node.js handler's response to
\* a run that ended Done or Failed is the 202 acceptance of the identifier,
\* which carries neither the result record nor the error.
C21_EntryPointResponses ==
  \A r \in RunIDs :
    LET run == runs[r] IN
    /\ run.handler = "LambdaHandler" /\ Responded(run) =>
         /\ run.pc \in {"done", "failed"}
         /\ IF run.pc = "done" THEN AnswersResult(run) ELSE AnswersError(run)
    /\ run.handler = "exports.handler" /\ run.pc \in {"done", "failed"} =>
         AnswersAccepted(run)

\* LambdaHandler has answered a Done run that has answers; so has, in the
\* other program, the Node.js handler
C21_Witness ==
  \E r \in RunIDs :
    /\ runs[r].pc = "done"
    /\ Responded(runs[r])
    /\ runs[r].handler \in PipelineHandlers
    /\ DOMAIN runs[r].answers = {"q1", "q2"}
    /\ impl = "go" => runs[r].answer.result.answers = runs[r].answers

\* LambdaHandler has answered a Failed run
C21_WitnessFailed ==
  \E r \in RunIDs :
    /\ runs[r].pc = "failed"
    /\ runs[r].handler = "LambdaHandler"
    /\ Responded(runs[r])

(***************************************************************************)
(* C22: the Node.js handler does not wait                                  *)
(***************************************************************************)
\* the Node.js handler was given an identifier and GEMINI_API_KEY is set
JsAcceptable(run) ==
  /\ run.handler = "exports.handler"
  /\ run.event.httpMethod \notin {"OPTIONS", "GET"}
  /\ JsCallLogsId(run.event).error = ""
  /\ run.env.GEMINI_API_KEY

\* the handler has answered 202 and the run it scheduled has not begun
C22_AcceptedAtOnce ==
  \A r \in RunIDs :
    LET run == runs[r] IN
    JsAcceptable(run) /\ run.pc # "recv" =>
      /\ Responded(run)
      /\ run.answer.statusCode = 202
      /\ run.answer.call_logsId = JsCallLogsId(run.event).id
      /\ run.issued = <<>> => run.pc = "start"

\* no step of the run changes the response
C22_ResponseKept ==
  \A r \in RunIDs :
    runs[r].handler = "exports.handler" /\ Responded(runs[r]) =>
      runs'[r].answer = runs[r].answer

\* C22: for a request that carries a call_logsId, with GEMINI_API_KEY set,
\* the Node.js handler answers 202 with the identifier before processCall
\* has issued anything, the run goes on after the answer, and no step of
\* the run, whether it ends Done or Failed, changes the response.
C22_AcceptedInBackground == []C22_AcceptedAtOnce /\ [][C22_ResponseKept]_vars

\* an accepted run that went on to the end after the answer
C22_Witness ==
  \E r \in RunIDs :
    /\ JsAcceptable(runs[r])
    /\ Responded(runs[r])
    /\ runs[r].answer.statusCode = 202
    /\ runs[r].pc = "done"
    /\ Len(runs[r].issued) = 6

\* an accepted run that failed after the answer
C22_WitnessFailed ==
  \E r \in RunIDs :
    /\ JsAcceptable(runs[r])
    /\ Responded(runs[r])
    /\ runs[r].answer.statusCode = 202
    /\ runs[r].pc = "failed"

(***************************************************************************)
(* C23: missing configuration                                              *)
(***************************************************************************)
\* the Node.js handler was given an identifier
JsCarriesID(run) ==
  /\ run.handler = "exports.handler"
  /\ run.event.httpMethod \notin {"OPTIONS", "GET"}
  /\ JsCallLogsId(run.event).error = ""

MissingConfig(env) == ~env.GEMINI_API_KEY \/ ~HasDBConfig(env)

\* the messages that name the missing variables
MissingConfigMessages ==
  {"GEMINI_API_KEY environment variable is required",
   "Missing required environment variables"}

\* C23: when GEMINI_API_KEY is unset, or neither DB_CONNECTION_STRING nor
\* all of DB_HOST, DB_NAME, DB_USER, DB_PASSWORD are set, the Node.js
\* handler's response to a request with an identifier is an error that
\* names the missing variables, not an acceptance.
C23_MissingConfigRejected ==
  \A r \in RunIDs :
    LET run == runs[r] IN
    JsCarriesID(run) /\ MissingConfig(run.env) /\ run.pc # "recv" =>
      /\ Responded(run)
      /\ run.answer.statusCode = 500
      /\ run.answer.message \in MissingConfigMessages

\* without database configuration, with the key set: the request was
\* accepted, and the run failed in connectToDatabase
C23_Witness ==
  \E r \in RunIDs :
    /\ JsCarriesID(runs[r])
    /\ runs[r].env.GEMINI_API_KEY
    /\ ~HasDBConfig(runs[r].env)
    /\ Responded(runs[r])
    /\ runs[r].answer.statusCode = 202
    /\ runs[r].pc = "failed"
    /\ runs[r].err = [step |-> "connect", cause |-> "configFail"]

(***************************************************************************)
(* C24: invalid requests to the Node.js handler                            *)
(***************************************************************************)
\* the body is a JSON value without a call_logsId: null, an object without
\* the key, or an object whose call_logsId is null
LacksCallLogsId(body) ==
  LET v == JsonParse(body) IN
  /\ v.ok
  /\ \/ v.isNull
     \/ "call_logsId" \notin DOMAIN v.members
     \/ v.members["call_logsId"] = "null"

\* a POST to the Node.js handler whose body is no JSON value or lacks the
\* identifier
InvalidPost(run) ==
  /\ run.handler = "exports.handler"
  /\ run.event.httpMethod = "POST"
  /\ run.event.call_logsId = ""
  /\ ~JsonParse(run.event.body).ok \/ LacksCallLogsId(run.event.body)

\* nothing of a pipeline run has happened for the invocation
NoWorkStarted(run) ==
  /\ run.issued = <<>>
  /\ run.db = "none"
  /\ run.callLogsID = "none"
  /\ run.reply = <<>>
  /\ run.saved = NoRecord
  /\ callAnalysis = [c \in CallIDs |-> OldAnalysis]

\* C24: a POST to the Node.js handler whose body lacks call_logsId (such
\* as {}) or is not valid JSON is answered with an error (status 500 and
\* a message), and no pipeline run is started for it: no connection, no
\* request, no persist, at any later time.
C24_InvalidRequestRejected ==
  \A r \in RunIDs :
    LET run == runs[r] IN
    InvalidPost(run) =>
      /\ NoWorkStarted(run)
      /\ run.pc \in {"recv", "answered"}
      /\ run.pc = "answered" =>
           /\ run.answer.statusCode = 500
           /\ run.answer.message \in {"call_logsId is required",
                                      "Invalid JSON in request body"}

\* the POST of {} has been answered
C24_Witness ==
  \E r \in RunIDs :
    /\ InvalidPost(runs[r])
    /\ runs[r].event.body = <<"{", "}">>
    /\ runs[r].pc = "answered"
    /\ runs[r].answer.statusCode = 500

\* a POST of a text that is no JSON value has been answered
C24_WitnessInvalidJSON ==
  \E r \in RunIDs :
    /\ InvalidPost(runs[r])
    /\ runs[r].event.body = <<"{", "call_logsId">>
    /\ runs[r].pc = "answered"
    /\ runs[r].answer.message = "Invalid JSON in request body"

(***************************************************************************)
(* C25: the API Gateway handler                                            *)
(***************************************************************************)
GatewayHandlers == {"HandleRequest", "debug.HandleRequest"}

\* the body is an object without the key call_logsId, or the literal null
MissingCallLogsId(body) ==
  LET v == JsonParse(body) IN
  v.ok /\ (v.isNull \/ "call_logsId" \notin DOMAIN v.members)

\* C25: HandleRequest answers every request whose method is not POST with
\* status 405, and a POST whose body is not valid JSON or has no
\* call_logsId with status 400.
C25_GatewayStatusCodes ==
  \A r \in RunIDs :
    LET run == runs[r] IN
    run.handler \in GatewayHandlers /\ Responded(run) =>
      /\ run.event.httpMethod # "POST" => run.answer.statusCode = 405
      /\ /\ run.event.httpMethod = "POST"
         /\ ~JsonParse(run.event.body).ok \/ MissingCallLogsId(run.event.body)
         => run.answer.statusCode = 400

\* a GET that carries an identifier has been answered with status 200
C25_Witness ==
  \E r \in RunIDs :
    /\ runs[r].handler = "HandleRequest"
    /\ runs[r].event.httpMethod = "GET"
    /\ Responded(runs[r])
    /\ runs[r].answer.statusCode = StatusOK
    /\ runs[r].answer.call_logsId = "c1"

\* what holds of HandleRequest: a body that is not valid JSON or has no
\* call_logsId is answered with status 400, whatever the method
C25_BadBodyIs400 ==
  \A r \in RunIDs :
    LET run == runs[r] IN
    /\ run.handler = "HandleRequest"
    /\ Responded(run)
    /\ ~JsonParse(run.event.body).ok \/ MissingCallLogsId(run.event.body)
    => run.answer.statusCode = 400

(***************************************************************************)
(* C26: invocations for different calls                                    *)
(***************************************************************************)
\* a step of invocation r changes no other invocation, and changes the
\* stored analysis of no call but its own
C26_StepIsLocal ==
  \A r \in RunIDs :
    runs'[r] # runs[r] =>
      /\ \A o \in RunIDs \ {r} : runs'[o] = runs[o]
      /\ \A c \in CallIDs \ {runs[r].callLogsID} :
           callAnalysis'[c] = callAnalysis[c]

\* what an invocation holds, persisted and returned, is a function of its
\* own identifier, its own call record, questions and AI reply
C26_OwnResult ==
  \A r \in RunIDs :
    LET run == runs[r] IN
    /\ run.callLogsID = CallOf(r)
    /\ run.pc \in {"save", "return", "done"} =>
         /\ run.reply # <<>>
         /\ IF Len(run.questions) = 0
            THEN run.transcription = run.reply /\ run.answers = NoAnswers
            ELSE /\ run.transcription = Recovered(run).transcription
                 /\ run.answers = Recovered(run).answers
    /\ IF Persisted(run)
       THEN /\ callAnalysis[run.callLogsID] = run.saved
            /\ run.saved.transcription = run.transcription
            /\ run.saved.answers = run.answers
       ELSE callAnalysis[run.callLogsID] = run.before
    /\ run.pc = "done" =>
         /\ run.result.call_logsId = run.callLogsID
         /\ run.result.campaignId = run.callData.CampaignID
         /\ run.result.transcription = run.transcription
         /\ run.result.answers = run.answers

\* C26: with two invocations under way for different call identifiers,
\* under every interleaving of their steps: a step of one changes nothing
\* of the other's pipeline instance and transient values, and changes the
\* stored analysis of no call but its own; what each persists and returns
\* is determined by its own call's record, questions and reply.
C26_NoInterference == []C26_OwnResult /\ [][C26_StepIsLocal]_vars

\* both invocations are Done, with different replies, each stored under
\* its own identifier
C26_Witness ==
  /\ \A r \in RunIDs : runs[r].pc = "done"
  /\ runs["r1"].reply # runs["r2"].reply
  /\ callAnalysis["c1"] = runs["r1"].saved
  /\ callAnalysis["c2"] = runs["r2"].saved
  /\ callAnalysis["c1"].transcription # callAnalysis["c2"].transcription

(***************************************************************************)
(* C27: a repeated answer index                                            *)
(***************************************************************************)
\* the loop is at an answer-mode line 'Answer k: text' with k in range
\* whose identifier already has an entry
OverwritingLine ==
  /\ pc = "loop"
  /\ idx <= Len(lines)
  /\ AnswerModeAt(lines, idx)
  /\ IsAnswerLine(impl, lines[idx])
  /\ AnswerNumber(impl, lines[idx]) \in 1..Len(questionIDs)
  /\ questionIDs[AnswerNumber(impl, lines[idx])] \in DOMAIN locals.answers

\* processing such a line replaces the entry by the line's trimmed
\* trailing text and leaves the other entries as they are
C27_LaterLineOverwrites ==
  OverwritingLine =>
    LET key == questionIDs[AnswerNumber(impl, lines[idx])] IN
    locals'.answers =
      [k \in DOMAIN locals.answers |->
         IF k = key THEN TrailingText(lines[idx]) ELSE locals.answers[k]]

\* the returned entry of an index with several lines is the last line's
C27_LastLineReturned ==
  pc = "done" =>
    \A k \in 1..Len(questionIDs) :
      LET S == LinesWithIndex(k) IN
      Cardinality(S) > 1 =>
        /\ questionIDs[k] \in DOMAIN ret.answers
        /\ \E j \in S :
             /\ \A m \in S : m <= j
             /\ ret.answers[questionIDs[k]] = TrailingText(lines[j])

IssuedAt(run, op) ==
  LET S == {i \in DOMAIN run.issued : run.issued[i] = op} IN
  IF S = {} THEN 0 ELSE CHOOSE i \in S : \A j \in S : i <= j

WasIssued(run, op) == IssuedAt(run, op) > 0

\* the call record was loaded and has an audio URL and a campaign
CallValidated(run) ==
  /\ WasIssued(run, "getCall")
  /\ run.callData \in CallRows
  /\ run.callData.RecordingURL # ""
  /\ run.callData.CampaignID # ""

\* the question load and the audio fetch have both ended with success
BothLoaded(run) ==
  /\ run.qState = "ok"
  /\ run.aState = "ok"
  /\ run.fetched > 0

\* C28: in every run, of either implementation and whatever times out, the
\* question load and the audio fetch are issued only after the call record
\* was loaded and validated; the AI request is issued only after both the
\* question load and the audio fetch have completed successfully; a
\* transcription and answers exist only after the AI reply; and persist is
\* issued only after the reply was parsed.
C28_StepsOrdered ==
  \A r \in RunIDs :
    LET run == runs[r] IN
    /\ \A op \in {"getQuestions", "download"} :
         WasIssued(run, op) =>
           /\ CallValidated(run)
           /\ IssuedAt(run, "getCall") < IssuedAt(run, op)
    /\ WasIssued(run, "ai") =>
         /\ BothLoaded(run)
         /\ IssuedAt(run, "getQuestions") < IssuedAt(run, "ai")
         /\ IssuedAt(run, "download") < IssuedAt(run, "ai")
    /\ run.transcription # <<>> \/ run.answers # NoAnswers =>
         WasIssued(run, "ai") /\ run.reply # <<>>
    /\ WasIssued(run, "save") =>
         /\ IssuedAt(run, "ai") < IssuedAt(run, "save")
         /\ run.reply # <<>>
         /\ Len(run.questions) > 0 =>
              /\ run.transcription = Recovered(run).transcription
              /\ run.answers = Recovered(run).answers

\* a Node.js run that issued its six operations and reached persist
C28_Witness ==
  \E r \in RunIDs :
    /\ impl = "js"
    /\ WasIssued(runs[r], "save")
    /\ BothLoaded(runs[r])
    /\ runs[r].issued =
         <<"connect", "getCall", "getQuestions", "download", "ai", "save">>

(***************************************************************************)
(* C29: the join of the question load and the audio fetch                  *)
(***************************************************************************)
\* one of the two operations started together has not settled
Outstanding(run) == run.qState = "pending" \/ run.aState = "pending"

\* C29: a Node.js run has left LoadingQuestionsAndAudio (to the AI request
\* and beyond, or to Failed with its database connection released) only
\* when neither the question load nor the audio fetch is outstanding.
C29_JoinedBeforeLeaving ==
  \A r \in RunIDs :
    impl = "js" /\ runs[r].pc \in {"ai", "save", "return", "done", "failed"}
      => ~Outstanding(runs[r])

\* the audio fetch failed, the run is Failed and its connection closed,
\* and the question query is still outstanding
C29_Witness ==
  \E r \in RunIDs :
    /\ impl = "js"
    /\ runs[r].pc = "failed"
    /\ runs[r].db = "closed"
    /\ runs[r].err.step = "download"
    /\ runs[r].qState = "pending"

\* what holds: the run goes on to the AI request only when both have
\* settled with success
C29_JoinedBeforeAI ==
  \A r \in RunIDs :
    impl = "js" /\ runs[r].pc \in {"ai", "save", "return", "done"}
      => runs[r].qState = "ok" /\ runs[r].aState = "ok"

(***************************************************************************)
(* C30: a second TRANSCRIPTION: line                                       *)
(***************************************************************************)
TranscriptionMarkerLines == {j \in 1..Len(lines) : IsTranscriptionMarker(lines[j])}

\* the first marker line after line t, or the position after the last line
NextMarkerAfter(ls, t) ==
  LET S == {j \in (t + 1)..Len(ls) : IsMarker(ls[j])} IN
  IF S = {} THEN Len(ls) + 1 ELSE CHOOSE j \in S : \A m \in S : j <= m

\* processing a TRANSCRIPTION: line replaces the transcription by the text
\* that follows the marker on the line and keeps the AnswerSet
C30_MarkerReplaces ==
  (pc = "loop" /\ idx <= Len(lines) /\ IsTranscriptionMarker(lines[idx])) =>
    /\ locals'.transcription = SeedText(lines[idx])
    /\ locals'.answers = locals.answers
    /\ locals'.inTranscription /\ ~locals'.inAnswers

\* the returned transcription is what follows the last TRANSCRIPTION: line
C30_LastSectionReturned ==
  (pc = "done" /\ TranscriptionMarkerLines # {}) =>
    LET t == CHOOSE j \in TranscriptionMarkerLines :
               \A m \in TranscriptionMarkerLines : m <= j IN
    ret.transcription = SectionText(lines, t, NextMarkerAfter(lines, t))

\* C30: whenever a line beginning with TRANSCRIPTION: is processed, the
\* transcription becomes the text after the marker on that line (possibly
\* empty) and the AnswerSet collected so far is kept; so the returned
\* transcription holds only what follows the last TRANSCRIPTION: line, and
\* nothing captured under an earlier one.
C30_SecondMarkerDiscards ==
  []C30_LastSectionReturned /\ [][C30_MarkerReplaces]_vars

\* 'TRANSCRIPTION:', ' h ', then ' TRANSCRIPTION: h:w ': the captured h is
\* gone from the result
C30_Witness ==
  /\ pc = "done"
  /\ Len(lines) = 3
  /\ IsTranscriptionMarker(lines[1])
  /\ lines[2] = <<" ", "h", " ">>
  /\ IsTranscriptionMarker(lines[3])
  /\ SeedText(lines[3]) = <<"h", ":", "w">>
  /\ ret.transcription = <<"h", ":", "w">>

\* an answer was collected before the TRANSCRIPTION: line and is returned
C30_WitnessAnswersKept ==
  /\ pc = "done"
  /\ Len(lines) = 3
  /\ IsAnswersMarker(lines[1])
  /\ IsTranscriptionMarker(lines[3])
  /\ DOMAIN ret.answers = {"q1"}

(***************************************************************************)
(* C31: the two capture modes                                              *)
(***************************************************************************)
\* the lines 1..idx-1 have been processed
InParse == pc \in {"loop", "done"}

\* C31: at every point of the parse at most one of the two capture modes
\* is on; both are off before the first line and as long as no marker line
\* has been processed; once a marker line has been processed exactly one
\* is on, the mode of the most recent marker line.
C31_ModesExclusive ==
  /\ ~(locals.inTranscription /\ locals.inAnswers)
  /\ pc = "idle" => ~locals.inTranscription /\ ~locals.inAnswers
  /\ InParse =>
       LET m == LastMarkerBefore(lines, idx) IN
       IF m = 0
       THEN ~locals.inTranscription /\ ~locals.inAnswers
       ELSE /\ locals.inTranscription = IsTranscriptionMarker(lines[m])
            /\ locals.inAnswers = IsAnswersMarker(lines[m])
            /\ locals.inTranscription # locals.inAnswers

\* after TRANSCRIPTION: and then ANSWERS: the answer mode alone is on
C31_Witness ==
  /\ pc = "loop"
  /\ idx = 3
  /\ IsTranscriptionMarker(lines[1])
  /\ IsAnswersMarker(lines[2])
  /\ locals.inAnswers
  /\ ~locals.inTranscription

(***************************************************************************)
(* C32                                                                     *)
(***************************************************************************)
\* the lines of the reply of a run, and the answer lines among them that
\* are processed in answer-capture mode and carry the number n
ReplyLines(run) == Split(run.reply, NL)
AnswerLinesFor(run, n) ==
  {j \in 1..Len(ReplyLines(run)) :
     /\ AnswerModeAt(ReplyLines(run), j)
     /\ IsAnswerLine(impl, ReplyLines(run)[j])
     /\ AnswerNumber(impl, ReplyLines(run)[j]) = n}
LastOf(S) == CHOOSE j \in S : \A m \in S : m <= j

\* the prompt enumerates the question at place n of the list as number n
EnumeratedAs(run, n) ==
  /\ n <= Len(Split(run.prompt.questionsText, NL))
  /\ Split(run.prompt.questionsText, NL)[n] =
       Itoa(n) \o <<".", " ">> \o run.details[n].QuestionText

\* the reply's answer lines with number n are stored under the identifier
\* of the question at place n, and only they are
StoredUnderSameQuestion(run, n) ==
  LET key == run.details[n].ID IN
  IF AnswerLinesFor(run, n) = {}
  THEN key \notin DOMAIN run.answers
  ELSE /\ key \in DOMAIN run.answers
       /\ run.answers[key] =
            TrailingText(ReplyLines(run)[LastOf(AnswerLinesFor(run, n))])

\* C32: for every non-empty question list, the question at place n of the
\* list (n counted from 1, list position n-1) is enumerated in the prompt
\* as number n, the identifier list given to the parser holds that
\* question's identifier at place n, and once the reply is parsed an
\* answer-mode line 'Answer n: v' is stored under that same identifier.
C32_PositionalCorrelation ==
  \A r \in RunIDs :
    LET run == runs[r] IN
    run.prompt.built =>
      /\ Len(run.details) > 0
      /\ Len(run.prompt.questionIDs) = Len(run.details)
      /\ \A n \in 1..Len(run.details) :
           /\ EnumeratedAs(run, n)
           /\ run.prompt.questionIDs[n] = run.details[n].ID
           /\ run.reply # <<>> => StoredUnderSameQuestion(run, n)

\* a run with two different questions whose reply answered both
C32_Witness ==
  \E r \in RunIDs :
    LET run == runs[r] IN
    /\ run.prompt.built
    /\ run.pc = "done"
    /\ Len(run.details) = 2
    /\ run.details[1].QuestionText # run.details[2].QuestionText
    /\ AnswerLinesFor(run, 1) # {} /\ AnswerLinesFor(run, 2) # {}
    /\ run.answers[run.details[1].ID] = <<"h">>
    /\ run.answers[run.details[2].ID] = <<"w">>

(***************************************************************************)
(* C37                                                                     *)
(***************************************************************************)
\* the constraint the rule asks for: the instructions when there are some,
\* else the sentence of the answer-type tag
RuleConstraint(q) ==
  IF q.Instructions # <<>> THEN q.Instructions
  ELSE IF q.AnswerType = "boolean"
       THEN <<"Answer must be ONLY 'true' or 'false'">>
  ELSE IF q.AnswerType = "integer"
       THEN <<"Answer must be ONLY a number (no units, no text)">>
  ELSE IF q.AnswerType = "description"
       THEN <<"Answer must be a descriptive summary">>
  ELSE <<"Answer should be clear and concise">>

ConstraintLines(run) == Split(run.prompt.constraintsText, NL)
ConstraintHead(n) == <<"Question", " ">> \o Itoa(n) \o <<":">>
ConstraintLinesFor(run, n) ==
  {j \in 1..Len(ConstraintLines(run)) :
     HasPrefix(ConstraintLines(run)[j], ConstraintHead(n))}

\* C37: the constraints text of a built prompt has one line per question
\* and no other line; for the question at place n (counted from 1) exactly
\* one line begins 'Question n:', and it is 'Question n: X' with X the
\* question's instructions when non-empty, otherwise the default sentence
\* of its answer-type tag.
C37_OneConstraintPerQuestion ==
  \A r \in RunIDs :
    LET run == runs[r] IN
    run.prompt.built =>
      /\ Len(ConstraintLines(run)) = Len(run.details)
      /\ \A n \in 1..Len(run.details) :
           /\ ConstraintLinesFor(run, n) = {n}
           /\ ConstraintLines(run)[n] =
                ConstraintHead(n) \o <<" ">> \o RuleConstraint(run.details[n])

\* a prompt for a question with instructions and a boolean question
\* without: the first line carries the instructions, the second the default
C37_Witness ==
  \E r \in RunIDs :
    LET run == runs[r] IN
    /\ run.prompt.built
    /\ Len(run.details) = 2
    /\ run.details[1].Instructions = <<"i">>
    /\ run.details[1].AnswerType = "integer"
    /\ run.details[2].Instructions = <<>>
    /\ run.details[2].AnswerType = "boolean"
    /\ ConstraintLines(run)[1] = <<"Question", " ", "1", ":", " ", "i">>
    /\ ConstraintLines(run)[2] =
         <<"Question", " ", "2", ":", " ",
           "Answer must be ONLY 'true' or 'false'">>

\* a prompt for a question whose tag is none of the three named ones
C37_WitnessOtherTag ==
  \E r \in RunIDs :
    LET run == runs[r] IN
    /\ run.prompt.built
    /\ run.details[1].Instructions = <<>>
    /\ run.details[1].AnswerType = "text"
    /\ ConstraintLines(run)[1] =
         <<"Question", " ", "1", ":", " ", "Answer should be clear and concise">>

(***************************************************************************)
(* C33                                                                     *)
(***************************************************************************)
\* the text the AI service sent: Go keeps the decoded response, Node.js
\* only its text
RawReply(run) ==
  IF impl = "go" THEN run.response.candidates[1][1] ELSE run.reply

\* the reply has a TRANSCRIPTION: line, an ANSWERS: line, a blank line and
\* white space at both ends
HasMarkersAndBlanks(text) ==
  /\ \E j \in 1..Len(Split(text, NL)) : IsTranscriptionMarker(Split(text, NL)[j])
  /\ \E j \in 1..Len(Split(text, NL)) : IsAnswersMarker(Split(text, NL)[j])
  /\ \E j \in 1..Len(Split(text, NL)) : Split(text, NL)[j] = <<>>
  /\ text[1] \in WhiteSpace
  /\ text[Len(text)] \in WhiteSpace

\* C33: in transcribe-only mode the transcription that is persisted and
\* the transcription that is returned are the text of the AI reply, token
\* for token: marker lines, blank lines and white space at its ends are
\* all kept.
C33_ReplyVerbatim ==
  \A r \in RunIDs :
    LET run == runs[r] IN
    TranscribedOnly(run) =>
      /\ run.saved # NoRecord => run.saved.transcription = RawReply(run)
      /\ run.result # NoRecord => run.result.transcription = RawReply(run)

\* a transcribe-only run that is Done, whose reply the parser would have
\* cut down
C33_Witness ==
  \E r \in RunIDs :
    LET run == runs[r] IN
    /\ TranscribedOnly(run)
    /\ run.pc = "done"
    /\ HasMarkersAndBlanks(run.reply)
    /\ run.saved.transcription = run.reply
    /\ run.result.transcription = run.reply
    /\ callAnalysis[run.callLogsID].transcription = run.reply
    /\ parseTranscriptionAndAnswers(impl, run.reply, <<>>).transcription
         # run.reply

(***************************************************************************)
(* C34                                                                     *)
(***************************************************************************)
\* the line about to be processed is an 'Answer n: text' line met in
\* transcription-capture mode
AnswerLineInTranscription ==
  /\ pc = "loop"
  /\ idx <= Len(lines)
  /\ TranscriptionModeAt(lines, idx)
  /\ IsAnswerLine(impl, lines[idx])

C34_CapturedAsText ==
  AnswerLineInTranscription =>
    /\ locals'.transcription =
         AppendLine(locals.transcription, TrimSpace(lines[idx]))
    /\ locals'.answers = locals.answers
    /\ locals'.inTranscription /\ ~locals'.inAnswers

\* C34: a line 'Answer n: text' that is processed in transcription-capture
\* mode (after a TRANSCRIPTION: line, before any later ANSWERS: line) is
\* appended, trimmed, on a line of its own to the transcription; the
\* AnswerSet and the mode stay as they are, whether or not n is the number
\* of a question.
C34_AnswerLineIsText == [][C34_CapturedAsText]_vars

\* 'TRANSCRIPTION:' then 'Answer 1: h' with one question: the line is the
\* transcription and there is no entry
C34_Witness ==
  /\ pc = "done"
  /\ Len(questionIDs) >= 1
  /\ Len(lines) = 2
  /\ lines[1] = <<"TRANSCRIPTION", ":">>
  /\ lines[2] = <<"Answer", " ", "1", ":", " ", "h">>
  /\ ret.transcription = <<"Answer", " ", "1", ":", " ", "h">>
  /\ ret.answers = NoAnswers

(***************************************************************************)
(* C35                                                                     *)
(***************************************************************************)
\* a line 'Answer <integer>: <text>': what stands between 'Answer ' and
\* the first colon is a decimal integer, optionally signed
MatchesAnswerPattern(l) ==
  /\ HasAnswerShape(l)
  /\ LET d == Unsigned(IndexField(l)) IN
       d # <<>> /\ \A i \in 1..Len(d) : d[i] \in Digits

\* line j of ls is one of the lines that are to be ignored: it is no marker
\* line, and it is processed before the first marker, or is blank, or is
\* processed in answer-capture mode and does not match the pattern
IgnoredAt(ls, j) ==
  /\ ~IsMarker(ls[j])
  /\ \/ LastMarkerBefore(ls, j) = 0
     \/ IsBlank(ls[j])
     \/ AnswerModeAt(ls, j) /\ ~MatchesAnswerPattern(ls[j])

RemoveAt(ls, j) == SubSeq(ls, 1, j - 1) \o SubSeq(ls, j + 1, Len(ls))

\* the parse of a list of lines
ParseOf(ls) == ParseResult(ParseLines(impl, ParseStart, ls, questionIDs))

\* processing such a line leaves the transcription, the AnswerSet and both
\* mode flags as they are
IgnoredLineKeepsState ==
  (pc = "loop" /\ idx <= Len(lines) /\ IgnoredAt(lines, idx)) =>
    ParseLine(impl, locals, lines[idx], questionIDs) = locals

\* the reply without such a line has the same parse result
IgnoredLineRemovable ==
  pc = "done" =>
    \A j \in 1..Len(lines) :
      IgnoredAt(lines, j) => ParseOf(RemoveAt(lines, j)) = ret

\* C35: a line processed before the first marker, a blank line, and a line
\* in answer-capture mode that does not match 'Answer <integer>: <text>'
\* each leave the transcription, the AnswerSet and both mode flags
\* unchanged, and removing such a line from the reply does not change the
\* parse result.
C35_IgnoredLinesChangeNothing ==
  IgnoredLineKeepsState /\ IgnoredLineRemovable

\* the Go parser does what the claim says
C35_GoIgnoresThem == impl = "go" => C35_IgnoredLinesChangeNothing

\* the Node.js parser with its own reading of the index (the leading
\* numeral of the field) ignores every line that has no such numeral
C35_JsIgnoresUnnumbered ==
  (impl = "js" /\ pc = "loop" /\ idx <= Len(lines)
     /\ ~IsMarker(lines[idx])
     /\ \/ LastMarkerBefore(lines, idx) = 0
        \/ IsBlank(lines[idx])
        \/ AnswerModeAt(lines, idx) /\ ~IsAnswerLine("js", lines[idx])) =>
    ParseLine(impl, locals, lines[idx], questionIDs) = locals

\* Node.js, 'ANSWERS:' then 'Answer 1w: h' with a question: the line does
\* not match the pattern and its text is stored as the first answer
C35_Witness ==
  /\ impl = "js"
  /\ pc = "done"
  /\ Len(questionIDs) >= 1
  /\ Len(lines) = 2
  /\ lines[1] = <<"ANSWERS", ":">>
  /\ lines[2] = <<"Answer", " ", "1", "w", ":", " ", "h">>
  /\ ~MatchesAnswerPattern(lines[2])
  /\ ret.answers = [k \in {"q1"} |-> <<"h">>]

(***************************************************************************)
(* C36                                                                     *)
(***************************************************************************)
\* what stands between 'Answer ' and the first colon of a line that begins
\* with 'Answer ' and has a colon, as it is written
RawLine(l) == JsTrim(TrimSpace(JsTrim(l)))
IsIndexedLine(l) ==
  HasPrefix(RawLine(l), AnswerPrefix) /\ IndexOf(RawLine(l), ":") > 0
RawIndexField(l) ==
  SubSeq(RawLine(l), Len(AnswerPrefix) + 1, IndexOf(RawLine(l), ":") - 1)

\* every such line of the reply carries a plain decimal index or none
PlainIndices(ls) ==
  \A j \in 1..Len(ls) :
    IsIndexedLine(ls[j]) =>
      \A i \in 1..Len(RawIndexField(ls[j])) : RawIndexField(ls[j])[i] \in Digits

OtherImpl == IF impl = "go" THEN "js" ELSE "go"

\* what the other implementation returns for the arguments of this call
OtherResult ==
  ParseResult(ParseLines(OtherImpl, ParseStart, lines, questionIDs))

\* C36: for every identifier list and every reply whose 'Answer' lines
\* carry only decimal digits (or nothing) between 'Answer ' and the first
\* colon, the Go and the Node.js parser return the same transcription and
\* the same AnswerSet.
C36_ParsersEquivalent ==
  (pc = "done" /\ PlainIndices(lines)) => ret = OtherResult

\* the reply holds no character only one of the two trims removes
CommonWhiteSpaceOnly(text) ==
  \A i \in 1..Len(text) : text[i] \notin {NEL, BOM}

\* on such replies the two parsers agree
C36_EquivalentOnCommonWhiteSpace ==
  (pc = "done" /\ PlainIndices(lines) /\ CommonWhiteSpaceOnly(responseText))
    => ret = OtherResult

\* the Go parser returns nothing for a reply that starts with a byte order
\* mark, the Node.js parser returns its transcription
C36_Witness ==
  /\ impl = "go"
  /\ pc = "done"
  /\ lines = << <<BOM, "TRANSCRIPTION", ":", " ", "w">> >>
  /\ PlainIndices(lines)
  /\ ret.transcription = <<>>
  /\ OtherResult.transcription = <<"w">>

\* with a leading zero and with an empty index both agree
C36_WitnessPlain ==
  /\ pc = "done"
  /\ Len(questionIDs) = 2
  /\ lines = << <<"ANSWERS", ":">>, <<"Answer", " ", "0", "2", ":", " ", "w">>,
                <<"Answer", " ", ":", " ", "h">> >>
  /\ ret.answers = [k \in {"q2"} |-> <<"w">>]
  /\ ret = OtherResult

(***************************************************************************)
(* C38: invocations for the same call                                      *)
(***************************************************************************)
\* the complete blob of a run: what its writer stored
BlobOf(r) == runs[r].saved

\* the stored analysis is the transcription of one run with the answers of
\* another
Mixed(stored) ==
  \E a, b \in RunIDs :
    /\ a # b
    /\ Persisted(runs[a]) /\ Persisted(runs[b])
    /\ stored.transcription = BlobOf(a).transcription
    /\ stored.answers = BlobOf(b).answers
    /\ stored # BlobOf(a)
    /\ stored # BlobOf(b)

\* once a run has persisted, the stored analysis of the call is the whole
\* blob of a run that has persisted, and never a mixture
C38_OneBlob ==
  \A r \in RunIDs :
    Persisted(runs[r]) =>
      LET stored == callAnalysis[runs[r].callLogsID] IN
      /\ \E w \in RunIDs :
           /\ Persisted(runs[w])
           /\ runs[w].callLogsID = runs[r].callLogsID
           /\ stored = BlobOf(w)
      /\ ~Mixed(stored)

\* the step in which a run persists stores that run's blob; no other step
\* changes what is stored
C38_LastWriterStored ==
  /\ \A r \in RunIDs :
       (~Persisted(runs[r]) /\ runs'[r].saved # NoRecord) =>
         callAnalysis'[runs[r].callLogsID] = runs'[r].saved
  /\ (\A r \in RunIDs : runs'[r].saved = runs[r].saved) =>
       callAnalysis' = callAnalysis

\* C38: with two runs under way for the same call identifier, under every
\* interleaving: each persist stores the complete blob (transcription,
\* AnswerSet, timestamp) of the run that executes it, so the stored
\* analysis is always the blob of the run whose persist executed last, and
\* when both runs are Done it is the blob of exactly that one, never the
\* transcription of one run with the answers of the other.
C38_NoMixedResults == []C38_OneBlob /\ [][C38_LastWriterStored]_vars

\* both runs of the same call are Done with different transcriptions and
\* different answers; the stored analysis is the blob of one and not of
\* the other
C38_Witness ==
  /\ \A r \in RunIDs : runs[r].pc = "done" /\ runs[r].callLogsID = "c1"
  /\ BlobOf("r1").transcription # BlobOf("r2").transcription
  /\ BlobOf("r1").answers # BlobOf("r2").answers
  /\ callAnalysis["c1"] = BlobOf("r2")
  /\ callAnalysis["c1"] # BlobOf("r1")

====
